---- MODULE Spec2Model ----
(***************************************************************************)
(* Swimmingly: the source-fusion orchestrator (fetchStaticData and the     *)
(* conditions GET handler) and the composite scoring function              *)
(* (calculateSwimScore and its five sub-scorers).                          *)
(*                                                                         *)
(* Units.  The code computes on floating-point numbers; the model keeps    *)
(* every quantity as an integer in the smallest unit the code's            *)
(* arithmetic needs:                                                       *)
(*   factor score        tenths of a point  (100 points = 1000)            *)
(*   overallScore        points (the code rounds it to an integer)         *)
(*   changeRate          tenths of a foot per hour                         *)
(*   speedKnots          hundredths of a knot                              *)
(*   waveHeightFeet      tenths of a foot                                  *)
(*   windSpeedMph        miles per hour                                    *)
(*   enterococcusCount   MPN/100ml                                         *)
(*   flowCFS             cubic feet per second                             *)
(*   time                hours                                             *)
(* A threshold is stored in the unit of the reading it is compared with.   *)
(* Products by 0.7, 0.4 and 0.6 are exact here; the code's floating-point  *)
(* product can differ from the exact one in its last binary place (85 x    *)
(* 0.7), which no comparison or rounding in the code turns into another    *)
(* outcome on the values drawn here.                                       *)
(* An absent value (null or undefined) is the record NULL; an optional     *)
(* field that is undefined is a field the record does not have.            *)
(***************************************************************************)
EXTENDS Integers, Sequences, FiniteSets, Bags, TLC

NULL == [isNull |-> TRUE]

Min(a, b) == IF a <= b THEN a ELSE b

Abs(x) == IF x < 0 THEN -x ELSE x

\* Math.round on a non-negative quotient n/d: the nearest integer, a half
\* rounding up.
Round(n, d) == (2 * n + d) \div (2 * d)

\* Math.floor of the quotient n/d.
Floor(n, d) == n \div d

Has(r, f) == f \in DOMAIN r

(***************************************************************************)
(* Configuration tables                                                    *)
(***************************************************************************)

SAFETY_THRESHOLDS ==
  [ waterQuality |-> [ enterococcus |-> [safe |-> 104, advisory |-> 500, dangerous |-> 1000] ],
    waves   |-> [calm |-> 20, safe |-> 30, moderate |-> 50, rough |-> 80],
    wind    |-> [calm |-> 5, light |-> 10, moderate |-> 15, strong |-> 20, veryStrong |-> 25],
    current |-> [slack |-> 30, slow |-> 50, moderate |-> 100, strong |-> 150, veryStrong |-> 200],
    sso     |-> [cautionDays |-> 3, warningDays |-> 7, proximityMiles |-> 2],
    tide    |-> [slackWindow |-> 5, lowCurrent |-> 10, moderateCurrent |-> 20] ]

\* SAFETY_THRESHOLDS.tide.phasePreference, read by scoreTideAndCurrent; the
\* thresholds table at hand does not declare it.
phasePreference == [slack |-> 100, flood |-> 85, ebb |-> 85]

\* SAFETY_THRESHOLDS.damReleases, read by scoreDamReleases; the thresholds
\* table at hand does not declare it.
damReleaseThresholds == [low |-> 30000, moderate |-> 50000, high |-> 80000, extreme |-> 100000]

SCORE_WEIGHTS ==
  [waterQuality |-> 30, tideAndCurrent |-> 25, waves |-> 20, weather |-> 15, visibility |-> 10]

\* SCORE_WEIGHTS.damReleases, read by calculateSwimScore; the weights table
\* at hand does not declare it.
damReleasesWeight == 10

SCORE_RANGES ==
  [ excellent |-> [min |-> 80, max |-> 100],
    good      |-> [min |-> 60, max |-> 79],
    fair      |-> [min |-> 40, max |-> 59],
    poor      |-> [min |-> 20, max |-> 39],
    dangerous |-> [min |-> 0,  max |-> 19] ]

\* 1000 * 60 * 60 * 24 milliseconds, in hours.
MsPerDay == 24

(***************************************************************************)
(* Issue strings.  The text is kept; of the numbers interpolated into a    *)
(* text only the age in days of a sewer overflow is kept (n), the one      *)
(* number that depends on the clock.                                       *)
(***************************************************************************)
Issue(msg) == [msg |-> msg, n |-> -1]

IssueN(msg, n) == [msg |-> msg, n |-> n]

\* String.prototype.includes on the condition texts the model draws from.
Includes(text, word) ==
  CASE word = "rain"  -> text \in {"light rain", "rain showers"}
    [] word = "storm" -> text \in {"thunderstorm"}
    [] OTHER -> FALSE

(***************************************************************************)
(* scoreWaterQuality                                                       *)
(***************************************************************************)

\* The window of SAFETY_THRESHOLDS.sso.warningDays instead of cautionDays
WithinWarningDays(sso, now) ==
  (now - sso.reportedAt) < SAFETY_THRESHOLDS.sso.warningDays * MsPerDay

\* (Date.now() - reportedAt) / MsPerDay < cautionDays
WithinCautionDays(sso, now) ==
  (now - sso.reportedAt) < SAFETY_THRESHOLDS.sso.cautionDays * MsPerDay

\* Math.ceil instead of Math.floor
DaysSinceCeil(sso, now) == -Floor(-(now - sso.reportedAt), MsPerDay)

\* Math.floor((Date.now() - reportedAt) / MsPerDay)
DaysSince(sso, now) == Floor(now - sso.reportedAt, MsPerDay)

\* recentSSOs.filter(sso => !sso.resolved)
ActiveSSOs(recentSSOs) == SelectSeq(recentSSOs, LAMBDA sso : ~sso.resolved)

\* recentSSOs.find(...): the first event inside the caution window, or NULL
FindRecentSSO(recentSSOs, now) ==
  LET hits == {i \in 1..Len(recentSSOs) : WithinCautionDays(recentSSOs[i], now)}
  IN  IF hits = {} THEN NULL
      ELSE recentSSOs[CHOOSE i \in hits : \A j \in hits : i <= j]

\* The bacteria-count step: score, status, bacteriaLevel and issues before
\* the overflow caps are applied.
WaterQualityBase(waterQuality) ==
  LET t == SAFETY_THRESHOLDS.waterQuality.enterococcus
  IN  IF waterQuality = NULL THEN
        [score |-> 500, status |-> "advisory", bacteriaLevel |-> "unknown",
         issues |-> <<Issue("No water quality data available")>>]
      ELSE IF Has(waterQuality, "enterococcusCount") THEN
        LET count == waterQuality.enterococcusCount
        IN  IF count > t.dangerous THEN
              [score |-> 0, status |-> "dangerous", bacteriaLevel |-> "dangerous",
               issues |-> <<Issue("Dangerous bacteria levels")>>]
            ELSE IF count > t.advisory THEN
              [score |-> 300, status |-> "warning", bacteriaLevel |-> "high",
               issues |-> <<Issue("High bacteria levels")>>]
            ELSE IF count > t.safe THEN
              [score |-> 700, status |-> "advisory", bacteriaLevel |-> "moderate",
               issues |-> <<Issue("Elevated bacteria levels")>>]
            ELSE
              [score |-> 1000, status |-> "safe", bacteriaLevel |-> "safe", issues |-> <<>>]
      ELSE
        [score |-> 1000, status |-> "safe", bacteriaLevel |-> "unknown", issues |-> <<>>]

scoreWaterQuality(waterQuality, recentSSOs, now) ==
  LET base == WaterQualityBase(waterQuality)
      activeSSOs == ActiveSSOs(recentSSOs)
      recentSSO == FindRecentSSO(recentSSOs, now)
      capped ==
        IF Len(activeSSOs) > 0 THEN
          [score |-> Min(base.score, 200), status |-> "dangerous",
           issues |-> Append(base.issues, Issue("Active sewer overflow nearby"))]
        ELSE IF recentSSO # NULL THEN
          [score |-> Min(base.score, 600),
           status |-> IF base.status = "safe" THEN "advisory" ELSE base.status,
           issues |-> Append(base.issues,
                             IssueN("Recent sewer overflow days ago", DaysSince(recentSSO, now)))]
        ELSE
          [score |-> base.score, status |-> base.status, issues |-> base.issues]
  IN  [score |-> capped.score,
       status |-> capped.status,
       bacteriaLevel |-> base.bacteriaLevel,
       recentSSO |-> (recentSSO # NULL),
       daysSinceSSO |-> IF recentSSO # NULL THEN DaysSince(recentSSO, now) ELSE -1,
       issues |-> capped.issues]

(***************************************************************************)
(* scoreTideAndCurrent                                                     *)
(***************************************************************************)

\* The tide-movement tier: the phase preference scaled by |changeRate|.
TideTier(basePhaseScore, phase, changeRate) ==
  IF Abs(changeRate) < SAFETY_THRESHOLDS.tide.lowCurrent THEN
    [score |-> basePhaseScore * 10, issues |-> <<>>]
  ELSE IF Abs(changeRate) < SAFETY_THRESHOLDS.tide.moderateCurrent THEN
    [score |-> Min(basePhaseScore * 7, 700), issues |-> <<Issue("Moderate tide movement")>>]
  ELSE
    [score |-> Min(basePhaseScore * 4, 400), issues |-> <<Issue("Strong tide movement")>>]

\* Each cap assigned to the score instead of being a min with it
SpeedCapAssigned(tier, currentSpeed) ==
  IF currentSpeed > SAFETY_THRESHOLDS.current.veryStrong THEN
    [score |-> 200, issues |-> Append(tier.issues, Issue("Very strong current"))]
  ELSE IF currentSpeed > SAFETY_THRESHOLDS.current.strong THEN
    [score |-> 400, issues |-> Append(tier.issues, Issue("Strong current"))]
  ELSE IF currentSpeed > SAFETY_THRESHOLDS.current.moderate THEN
    [score |-> 650, issues |-> Append(tier.issues, Issue("Moderate current"))]
  ELSE tier

\* The current-speed caps applied to the tier's score.
SpeedCap(tier, currentSpeed) ==
  IF currentSpeed > SAFETY_THRESHOLDS.current.veryStrong THEN
    [score |-> Min(tier.score, 200), issues |-> Append(tier.issues, Issue("Very strong current"))]
  ELSE IF currentSpeed > SAFETY_THRESHOLDS.current.strong THEN
    [score |-> Min(tier.score, 400), issues |-> Append(tier.issues, Issue("Strong current"))]
  ELSE IF currentSpeed > SAFETY_THRESHOLDS.current.moderate THEN
    [score |-> Min(tier.score, 650), issues |-> Append(tier.issues, Issue("Moderate current"))]
  ELSE tier

scoreTideAndCurrent(tide, current, customTidePreferences) ==
  LET phase == IF tide = NULL THEN "slack" ELSE tide.currentPhase
      currentSpeed == IF current = NULL THEN 0 ELSE current.speedKnots
      noHeight == tide = NULL \/ ~Has(tide, "heightFeet")
      tideHeight == IF noHeight THEN 0 ELSE tide.heightFeet
      changeRate == IF tide = NULL THEN 0 ELSE tide.changeRateFeetPerHour
      preferences == IF customTidePreferences # NULL THEN customTidePreferences
                     ELSE phasePreference
      scored == IF noHeight THEN
                  [score |-> 500, issues |-> <<Issue("No tide data available")>>]
                ELSE SpeedCap(TideTier(preferences[phase], phase, changeRate), currentSpeed)
  IN  [score |-> scored.score,
       phase |-> phase,
       currentSpeed |-> currentSpeed,
       tideHeight |-> tideHeight,
       favorable |-> (phase = "slack" \/ currentSpeed < SAFETY_THRESHOLDS.current.slow),
       issues |-> scored.issues]

(***************************************************************************)
(* scoreWaves                                                              *)
(***************************************************************************)
scoreWaves(waves) ==
  LET height == IF waves = NULL THEN 0 ELSE waves.waveHeightFeet
      t == SAFETY_THRESHOLDS.waves
      banded ==
        IF height = 0 THEN
          [score |-> 500, status |-> "moderate", issues |-> <<Issue("No wave data available")>>]
        ELSE IF height < t.calm THEN [score |-> 1000, status |-> "calm", issues |-> <<>>]
        ELSE IF height < t.safe THEN [score |-> 850, status |-> "calm", issues |-> <<>>]
        ELSE IF height < t.moderate THEN
          [score |-> 600, status |-> "moderate", issues |-> <<Issue("Moderate waves")>>]
        ELSE IF height < t.rough THEN
          [score |-> 300, status |-> "rough", issues |-> <<Issue("Rough waves")>>]
        ELSE
          [score |-> 100, status |-> "dangerous", issues |-> <<Issue("Dangerous waves")>>]
  IN  [score |-> banded.score, heightFeet |-> height, status |-> banded.status,
       issues |-> banded.issues]

(***************************************************************************)
(* scoreWeather                                                            *)
(***************************************************************************)
scoreWeather(weather) ==
  LET windSpeed == IF weather = NULL THEN 0 ELSE weather.windSpeedMph
      temperature == IF weather = NULL THEN 0 ELSE weather.temperatureF
      t == SAFETY_THRESHOLDS.wind
      banded ==
        IF windSpeed = 0 THEN
          [score |-> 500, windCondition |-> "moderate", issues |-> <<Issue("No wind data available")>>]
        ELSE IF windSpeed < t.calm THEN [score |-> 1000, windCondition |-> "calm", issues |-> <<>>]
        ELSE IF windSpeed < t.light THEN [score |-> 950, windCondition |-> "light", issues |-> <<>>]
        ELSE IF windSpeed < t.moderate THEN
          [score |-> 800, windCondition |-> "moderate", issues |-> <<>>]
        ELSE IF windSpeed < t.strong THEN
          [score |-> 600, windCondition |-> "moderate", issues |-> <<Issue("Moderate winds")>>]
        ELSE IF windSpeed < t.veryStrong THEN
          [score |-> 350, windCondition |-> "strong", issues |-> <<Issue("Strong winds")>>]
        ELSE
          [score |-> 150, windCondition |-> "strong", issues |-> <<Issue("Very strong winds")>>]
      precipitation == weather # NULL /\ Has(weather, "conditions")
                       /\ (Includes(weather.conditions, "rain") \/ Includes(weather.conditions, "storm"))
  IN  [score |-> IF precipitation THEN Min(banded.score, 400) ELSE banded.score,
       temperature |-> temperature,
       windSpeed |-> windSpeed,
       windCondition |-> banded.windCondition,
       issues |-> IF precipitation THEN Append(banded.issues, Issue("Precipitation present"))
                  ELSE banded.issues]

(***************************************************************************)
(* scoreDamReleases                                                        *)
(***************************************************************************)

\* A field read from an object that lacks it is undefined, and a comparison
\* with undefined is false.  The aggregate that fetchDamReleases returns
\* keeps its flow under current (current.totalFlowCFS, dams[].current.flowCFS),
\* so the top-level fields the scorer reads may be absent.
Exceeds(r, f, t) == Has(r, f) /\ r[f] > t

\* dam.flowCFS > max.flowCFS
FlowExceeds(dam, max) == Has(dam, "flowCFS") /\ Has(max, "flowCFS") /\ dam.flowCFS > max.flowCFS

RECURSIVE ReduceTopDam(_, _, _)
ReduceTopDam(dams, i, max) ==
  IF i > Len(dams) THEN max
  ELSE ReduceTopDam(dams, i + 1, IF FlowExceeds(dams[i], max) THEN dams[i] ELSE max)

\* dams.reduce((max, dam) => dam.flowCFS > max.flowCFS ? dam : max, dams[0] || Unknown)
TopDam(dams) ==
  ReduceTopDam(dams, 1, IF Len(dams) = 0 THEN [name |-> "Unknown", flowCFS |-> 0] ELSE dams[1])

\* r with field f as src has it: copied when src has the field, left out
\* (undefined) when it has not.
CopyField(r, src, f) ==
  IF f \in DOMAIN src THEN [x \in DOMAIN r \cup {f} |-> IF x = f THEN src[f] ELSE r[x]]
  ELSE r

scoreDamReleases(damReleases) ==
  IF damReleases = NULL THEN
    [score |-> 750, totalFlowCFS |-> 0, releaseLevel |-> "low", topContributor |-> "Unknown",
     issues |-> <<Issue("Dam release data unavailable")>>]
  ELSE
    LET t == damReleaseThresholds
        banded ==
          IF Exceeds(damReleases, "totalFlowCFS", t.extreme) THEN
            [score |-> 100, issues |-> <<Issue("Extreme dam releases"),
                Issue("Very strong currents expected - swimming not recommended")>>]
          ELSE IF Exceeds(damReleases, "totalFlowCFS", t.high) THEN
            [score |-> 300, issues |-> <<Issue("High dam releases"),
                Issue("Strong currents - experienced swimmers only")>>]
          ELSE IF Exceeds(damReleases, "totalFlowCFS", t.moderate) THEN
            [score |-> 650, issues |-> <<Issue("High dam releases"),
                Issue("Strong currents - experienced swimmers only")>>]
          ELSE IF Exceeds(damReleases, "totalFlowCFS", t.low) THEN
            [score |-> 750, issues |-> <<Issue("Moderate dam releases"),
                Issue("Increased current strength")>>]
          ELSE [score |-> 1000, issues |-> <<>>]
        factor == [score |-> banded.score,
                   topContributor |-> TopDam(damReleases.dams).name,
                   issues |-> banded.issues]
    IN  CopyField(CopyField(factor, damReleases, "totalFlowCFS"), damReleases, "releaseLevel")

(***************************************************************************)
(* getScoreRating, generateAdvice, calculateSwimScore                      *)
(***************************************************************************)
\* The boundaries taken as exclusive
getScoreRatingAbove(score) ==
  IF score > SCORE_RANGES.excellent.min THEN "excellent"
  ELSE IF score > SCORE_RANGES.good.min THEN "good"
  ELSE IF score > SCORE_RANGES.fair.min THEN "fair"
  ELSE IF score > SCORE_RANGES.poor.min THEN "poor"
  ELSE "dangerous"

getScoreRating(score) ==
  IF score >= SCORE_RANGES.excellent.min THEN "excellent"
  ELSE IF score >= SCORE_RANGES.good.min THEN "good"
  ELSE IF score >= SCORE_RANGES.fair.min THEN "fair"
  ELSE IF score >= SCORE_RANGES.poor.min THEN "poor"
  ELSE "dangerous"

\* Only the overall advice is given
generateAdviceOverallOnly(factors, overallScore) ==
  [recommendations |->
     IF overallScore >= 80 THEN <<"Excellent conditions for swimming">>
     ELSE IF overallScore >= 60 THEN <<"Good conditions for swimming">>
     ELSE IF overallScore >= 40 THEN <<"Fair conditions - experienced swimmers recommended">>
     ELSE <<>>,
   warnings |->
     IF overallScore >= 40 THEN <<>>
     ELSE IF overallScore >= 20 THEN <<"Poor conditions - not recommended">>
     ELSE <<"Dangerous conditions - do not swim">>]

generateAdvice(factors, overallScore) ==
  LET wq == factors.waterQuality
      tc == factors.tideAndCurrent
      wv == factors.waves
      we == factors.weather
      dr == factors.damReleases
      w1 == IF wq.status = "dangerous" THEN <<"Do not swim - dangerous water quality">>
            ELSE IF wq.status = "warning" THEN <<"Water quality warning in effect">>
            ELSE IF wq.recentSSO THEN <<"Recent sewer overflow - use caution">>
            ELSE <<>>
      r2 == IF tc.phase = "slack" THEN <<"Excellent time - slack tide">> ELSE <<>>
      w2 == IF tc.phase # "slack" /\ tc.currentSpeed > 100
            THEN <<"Strong currents - experienced swimmers only">> ELSE <<>>
      w3 == IF wv.status = "dangerous" THEN <<"Dangerous wave conditions">>
            ELSE IF wv.status = "rough" THEN <<"Rough seas - not recommended">>
            ELSE <<>>
      r3 == IF wv.status \notin {"dangerous", "rough"} /\ wv.heightFeet < 20
            THEN <<"Calm water conditions">> ELSE <<>>
      w4 == IF we.windCondition = "strong" THEN <<"Strong winds present">> ELSE <<>>
      level == IF Has(dr, "releaseLevel") THEN dr.releaseLevel ELSE "undefined"
      w5 == IF level = "extreme"
              THEN <<"Extreme dam releases - very strong currents expected">>
            ELSE IF level = "high" THEN <<"High dam releases - strong bay currents">>
            ELSE <<>>
      r5 == IF level = "moderate" THEN <<"Moderate dam releases - be aware of currents">>
            ELSE IF level = "low" THEN <<"Normal dam operations">>
            ELSE <<>>
      r6 == IF overallScore >= 80 THEN <<"Excellent conditions for swimming">>
            ELSE IF overallScore >= 60 THEN <<"Good conditions for swimming">>
            ELSE IF overallScore >= 40 THEN <<"Fair conditions - experienced swimmers recommended">>
            ELSE <<>>
      w6 == IF overallScore >= 40 THEN <<>>
            ELSE IF overallScore >= 20 THEN <<"Poor conditions - not recommended">>
            ELSE <<"Dangerous conditions - do not swim">>
  IN  [recommendations |-> r2 \o r3 \o r5 \o r6,
       warnings |-> w1 \o w2 \o w3 \o w4 \o w5 \o w6]

\* The 7-argument call shape: a supplied preference lands in the damReleases
\* slot, so the dam factor is scored without the aggregate.
FactorsArgumentShift(tide, current, weather, waves, waterQuality, recentSSOs, damReleases, customTidePreferences, now) ==
  [waterQuality   |-> scoreWaterQuality(waterQuality, recentSSOs, now),
   tideAndCurrent |-> scoreTideAndCurrent(tide, current, customTidePreferences),
   waves          |-> scoreWaves(waves),
   weather        |-> scoreWeather(weather),
   damReleases    |-> scoreDamReleases(IF customTidePreferences # NULL THEN NULL ELSE damReleases)]

\* The five sub-scorers applied to their readings.
Factors(tide, current, weather, waves, waterQuality, recentSSOs, damReleases, customTidePreferences, now) ==
  [waterQuality   |-> scoreWaterQuality(waterQuality, recentSSOs, now),
   tideAndCurrent |-> scoreTideAndCurrent(tide, current, customTidePreferences),
   waves          |-> scoreWaves(waves),
   weather        |-> scoreWeather(weather),
   damReleases    |-> scoreDamReleases(damReleases)]

\* Math.floor instead of Math.round
OverallScoreFloor(factors) ==
  Floor(factors.waterQuality.score * SCORE_WEIGHTS.waterQuality
        + factors.tideAndCurrent.score * SCORE_WEIGHTS.tideAndCurrent
        + factors.waves.score * SCORE_WEIGHTS.waves
        + factors.weather.score * SCORE_WEIGHTS.weather
        + factors.damReleases.score * damReleasesWeight,
        100 * 10)

\* A weighted sum that is not divided by 100 (weights taken as fractions
\* that they are not)
OverallScoreUnscaled(factors) ==
  Round(factors.waterQuality.score * SCORE_WEIGHTS.waterQuality
        + factors.tideAndCurrent.score * SCORE_WEIGHTS.tideAndCurrent
        + factors.waves.score * SCORE_WEIGHTS.waves
        + factors.weather.score * SCORE_WEIGHTS.weather
        + factors.damReleases.score * damReleasesWeight,
        10)

\* Math.round(sum of score x weight / 100); the scores are in tenths.
OverallScore(factors) ==
  Round(factors.waterQuality.score * SCORE_WEIGHTS.waterQuality
        + factors.tideAndCurrent.score * SCORE_WEIGHTS.tideAndCurrent
        + factors.waves.score * SCORE_WEIGHTS.waves
        + factors.weather.score * SCORE_WEIGHTS.weather
        + factors.damReleases.score * damReleasesWeight,
        100 * 10)

calculateSwimScore(tide, current, weather, waves, waterQuality, recentSSOs, damReleases, customTidePreferences, now) ==
  LET factors == Factors(tide, current, weather, waves, waterQuality, recentSSOs, damReleases,
                         customTidePreferences, now)
      overallScore == OverallScore(factors)
      advice == generateAdvice(factors, overallScore)
  IN  [timestamp |-> now,
       overallScore |-> overallScore,
       rating |-> getScoreRating(overallScore),
       factors |-> factors,
       recommendations |-> advice.recommendations,
       warnings |-> advice.warnings]

(***************************************************************************)
(* The dam-release aggregator (fetchDamReleases).  A quotient the code     *)
(* computes in floating point is kept as a reduced fraction [n, d].        *)
(***************************************************************************)

RECURSIVE GCD(_, _)
GCD(a, b) == IF b = 0 THEN a ELSE GCD(b, a % b)

\* The quotient n / d (d > 0) as a reduced fraction.
Rat(n, d) ==
  LET g == GCD(Abs(n), d)
  IN  [n |-> n \div g, d |-> d \div g]

RatSub(p, q) == Rat(p.n * q.d - q.n * p.d, p.d * q.d)

\* p / q for q > 0
RatDiv(p, q) == Rat(p.n * q.d, p.d * q.n)

RatTimes(p, k) == Rat(p.n * k, p.d)

RatGreater(p, k) == p.n > k * p.d

RatLess(p, k) == p.n < k * p.d

\* name, stationId and weight (in tenths) of the monitored stations
MONITORED_DAMS ==
  << [name |-> "Folsom Dam",   stationId |-> "FOL", weight |-> 10],
     [name |-> "Oroville Dam", stationId |-> "ORO", weight |-> 15],
     [name |-> "Shasta Dam",   stationId |-> "SHA", weight |-> 20],
     [name |-> "Pardee Dam",   stationId |-> "PAR", weight |-> 3],
     [name |-> "Camanche Dam", stationId |-> "CMN", weight |-> 3] >>

\* The sum of a sequence of numbers, halves added separately to keep the
\* evaluation shallow.
RECURSIVE SumSeq(_)
SumSeq(s) ==
  IF Len(s) = 0 THEN 0
  ELSE IF Len(s) = 1 THEN s[1]
  ELSE LET h == Len(s) \div 2
       IN  SumSeq(SubSeq(s, 1, h)) + SumSeq(SubSeq(s, h + 1, Len(s)))

\* Math.max(...flows) of a non-empty sequence.
MaxSeq(s) ==
  LET values == { s[i] : i \in 1..Len(s) }
  IN  CHOOSE m \in values : \A v \in values : v <= m

\* A row of the station's CSV answer yields a sample when its value parses
\* to a number (parseFloat, !isNaN) that is greater than 0.
ValidRow(row) == row.isNumber /\ row.value > 0

\* The parse loop of fetchDamFlowHistory: the samples of the valid rows, in
\* the order of the rows.
ParseRows(rows) ==
  LET valid == SelectSeq(rows, ValidRow)
  IN  [i \in 1..Len(valid) |-> [timestamp |-> valid[i].dateTime, flowCFS |-> valid[i].value]]

\* A failed request (the catch block) yields a history without samples.
fetchDamFlowHistory(dam, response) ==
  [name |-> dam.name, stationId |-> dam.stationId,
   data |-> IF response.ok THEN ParseRows(response.rows) ELSE <<>>]

Flows(data) == [i \in 1..Len(data) |-> data[i].flowCFS]

calculateDamAggregates(data) ==
  IF Len(data) = 0 THEN
    [averageFlowCFS |-> Rat(0, 1), peakFlowCFS |-> 0, dataPoints |-> 0]
  ELSE
    [averageFlowCFS |-> Rat(SumSeq(Flows(data)), Len(data)),
     peakFlowCFS |-> MaxSeq(Flows(data)),
     dataPoints |-> Len(data)]

\* Each sample stored under its time, replacing what was stored there
MapAddOverwrite(map, timeKey, flowCFS) ==
  IF \E j \in 1..Len(map) : map[j].timestamp = timeKey
  THEN LET j == CHOOSE j \in 1..Len(map) : map[j].timestamp = timeKey
       IN  [map EXCEPT ![j].totalFlow = flowCFS]
  ELSE Append(map, [timestamp |-> timeKey, totalFlow |-> flowCFS])

\* The Map of combined flows by sample time, kept as its entries in
\* insertion order.
\* timePointMap.set(timeKey, (timePointMap.get(timeKey) || 0) + point.flowCFS)
MapAdd(map, timeKey, flowCFS) ==
  IF \E j \in 1..Len(map) : map[j].timestamp = timeKey
  THEN LET j == CHOOSE j \in 1..Len(map) : map[j].timestamp = timeKey
       IN  [map EXCEPT ![j].totalFlow = @ + flowCFS]
  ELSE Append(map, [timestamp |-> timeKey, totalFlow |-> flowCFS])

\* The forEach over a station's samples: samples lo..hi are added to the map
\* in order, the first half before the second.
RECURSIVE AddPointsBetween(_, _, _, _)
AddPointsBetween(map, data, lo, hi) ==
  IF lo > hi THEN map
  ELSE IF lo = hi THEN MapAdd(map, data[lo].timestamp, data[lo].flowCFS)
  ELSE LET mid == (lo + hi) \div 2
           added == AddPointsBetween(map, data, lo, mid)
       IN  IF Len(added) > 0 THEN AddPointsBetween(added, data, mid + 1, hi) ELSE map

AddPoints(map, data, i) == AddPointsBetween(map, data, i, Len(data))

RECURSIVE AddHistories(_, _, _)
AddHistories(map, damHistories, k) ==
  IF k > Len(damHistories) THEN map
  ELSE AddHistories(AddPoints(map, damHistories[k].data, 1), damHistories, k + 1)

\* The map with every station's samples added, keyed by sample time.
TimePointMap(damHistories) == AddHistories(<<>>, damHistories, 1)

\* Array.from(map.entries()).map(...).sort(by timestamp)
\* (The keys of a Map are distinct, so an entry's place is the number of
\* entries with an earlier time.)
TimePoints(map) ==
  LET earlier(j) == Cardinality({ k \in 1..Len(map) : map[k].timestamp < map[j].timestamp })
  IN  [r \in 1..Len(map) |-> map[CHOOSE j \in 1..Len(map) : earlier(j) = r - 1]]

\* The peak loop from point i on: a point replaces the peak when its total
\* flow is strictly greater, so the result is the first point with the
\* greatest total flow, or the peak handed in when no point exceeds it.
PeakOf(timePoints, i, peak) ==
  LET rest == i..Len(timePoints)
      above == { j \in rest : timePoints[j].totalFlow > peak.peakFlow }
  IN  IF above = {} THEN peak
      ELSE LET j == CHOOSE j \in above :
                      /\ \A k \in above : timePoints[k].totalFlow <= timePoints[j].totalFlow
                      /\ \A k \in above : k < j => timePoints[k].totalFlow < timePoints[j].totalFlow
           IN  [peakFlow |-> timePoints[j].totalFlow, peakTime |-> timePoints[j].timestamp]

\* 2^k for k >= 0
RECURSIVE Pow2(_)
Pow2(k) == IF k = 0 THEN 1 ELSE 2 * Pow2(k - 1)

\* 2^k mod n
RECURSIVE PowMod2(_, _)
PowMod2(k, n) ==
  IF k = 0 THEN 1 % n
  ELSE IF k % 2 = 0 THEN LET h == PowMod2(k \div 2, n) IN (h * h) % n
  ELSE (2 * PowMod2(k - 1, n)) % n

\* The binary exponent of the quotient sum / n >= 1: 2^j <= sum / n < 2^(j+1).
Binade(sum, n) == CHOOSE j \in 0..22 : Pow2(j) * n <= sum /\ sum < Pow2(j + 1) * n

\* The average sum / n as the double the code holds: the quotient is rounded
\* to 53 significant bits.  With avg the double and k = 52 - Binade(sum, n),
\* sum * 2^k = (avg * 2^k) * n + RoundingError(sum, n); the error is 0 when
\* the quotient is a double.
RoundingError(sum, n) ==
  LET rem == ((sum % n) * PowMod2(52 - Binade(sum, n), n)) % n
  IN  IF 2 * rem > n THEN rem - n ELSE rem

\* ((last12hAvg - first12hAvg) / first12hAvg) * 100 in doubles, when the
\* exact change is 15% (lastSum = 1.15 firstSum) or -15% (lastSum = 0.85
\* firstSum): whether the computed magnitude exceeds 15.  The difference of
\* the two doubles is exact; the quotient passes 0.15 when it reaches the
\* midpoint of the double nearest 0.15 and the next one, and then the
\* product passes 15.  In terms of the rounding errors of the two averages
\* this is k * 2^j >= 3 * firstSum (with equality only for a first average
\* rounded down), j the smaller binade of the two averages.
ExceedsFifteenPercent(firstSum, lastSum, n) ==
  LET jx == Binade(firstSum, n)
      jy == Binade(lastSum, n)
      j == Min(jx, jy)
      ux == Pow2(jx - j)
      uy == Pow2(jy - j)
      ea == RoundingError(firstSum, n)
      eb == RoundingError(lastSum, n)
      k == IF lastSum < firstSum THEN 80 * uy * eb - 68 * ux * ea
           ELSE 92 * ux * ea - 80 * uy * eb
  IN  /\ k > 0
      /\ \/ Pow2(j) > (3 * firstSum) \div k
         \/ Pow2(j) = (3 * firstSum) \div k /\ (3 * firstSum) % k = 0 /\ ea >= 0

\* The trend of a series of combined flows.  With numPoints = 0 the code
\* divides 0 by 0: first12hAvg is NaN, NaN > 0 is false, percentChange is 0.
\* allFlows.slice(-0) is the whole array.  The code computes in doubles;
\* for integer flows the result differs from the exact quotient only when
\* the exact change is 15% or -15%.
TrendDirection(allFlows, last48hAvg) ==
  LET numPoints == Min(12, Floor(Len(allFlows), 4))
      firstSum == SumSeq(SubSeq(allFlows, 1, numPoints))
      lastSum == IF numPoints = 0 THEN SumSeq(allFlows)
                 ELSE SumSeq(SubSeq(allFlows, Len(allFlows) - numPoints + 1, Len(allFlows)))
      measurable == numPoints > 0
      first12hAvg == IF Len(allFlows) >= numPoints * 2 THEN Rat(firstSum, numPoints)
                     ELSE last48hAvg
      last12hAvg == IF Len(allFlows) >= numPoints THEN Rat(lastSum, numPoints)
                    ELSE last48hAvg
      percentChange == IF measurable /\ first12hAvg.n > 0
                       THEN RatTimes(RatDiv(RatSub(last12hAvg, first12hAvg), first12hAvg), 100)
                       ELSE Rat(0, 1)
      atFifteen == measurable /\ firstSum > 0
                   /\ (20 * lastSum = 23 * firstSum \/ 20 * lastSum = 17 * firstSum)
  IN  IF atFifteen THEN
        IF ~ExceedsFifteenPercent(firstSum, lastSum, numPoints) THEN "stable"
        ELSE IF lastSum > firstSum THEN "increasing" ELSE "decreasing"
      ELSE IF RatGreater(percentChange, 15) THEN "increasing"
      ELSE IF RatLess(percentChange, -15) THEN "decreasing"
      ELSE "stable"

calculateCombinedAggregates(damHistories, now) ==
  LET hours24Ago == now - 24
      timePoints == TimePoints(TimePointMap(damHistories))
      allFlows == [i \in 1..Len(timePoints) |-> timePoints[i].totalFlow]
      recent == SelectSeq(timePoints, LAMBDA point : point.timestamp > hours24Ago)
      last24hFlows == [i \in 1..Len(recent) |-> recent[i].totalFlow]
  IN  IF Len(timePoints) = 0 THEN
        [averageFlowCFS |-> Rat(0, 1), peakFlowCFS |-> 0, peakTimestamp |-> now,
         trendDirection |-> "stable", last24hAverage |-> Rat(0, 1),
         last48hAverage |-> Rat(0, 1), dataPointsCount |-> 0]
      ELSE
        LET peak == PeakOf(timePoints, 1, [peakFlow |-> 0, peakTime |-> timePoints[1].timestamp])
            last24hAvg == IF Len(last24hFlows) > 0
                          THEN Rat(SumSeq(last24hFlows), Len(last24hFlows)) ELSE Rat(0, 1)
            last48hAvg == Rat(SumSeq(allFlows), Len(allFlows))
        IN  [averageFlowCFS |-> last48hAvg,
             peakFlowCFS |-> peak.peakFlow,
             peakTimestamp |-> peak.peakTime,
             trendDirection |-> TrendDirection(allFlows, last48hAvg),
             last24hAverage |-> last24hAvg,
             last48hAverage |-> last48hAvg,
             dataPointsCount |-> Len(allFlows)]

determineReleaseLevel(totalFlowCFS) ==
  IF totalFlowCFS > 80000 THEN "extreme"
  ELSE IF totalFlowCFS > 50000 THEN "high"
  ELSE IF totalFlowCFS > 30000 THEN "moderate"
  ELSE "low"

\* The first sample of the history taken as the current one
DamEntryFirstSample(damHistory) ==
  LET n == Len(damHistory.data)
      current == IF n = 0
                 THEN [flowCFS |-> 0, percentOfTotal |-> Rat(0, 1)]
                 ELSE [flowCFS |-> damHistory.data[1].flowCFS,
                       timestamp |-> damHistory.data[1].timestamp,
                       percentOfTotal |-> Rat(0, 1)]
  IN  [name |-> damHistory.name, stationId |-> damHistory.stationId,
       current |-> current,
       historical48h |-> calculateDamAggregates(damHistory.data)]

\* One entry of damData before the percentages are filled in.
DamEntry(damHistory) ==
  LET n == Len(damHistory.data)
      current == IF n = 0
                 THEN [flowCFS |-> 0, percentOfTotal |-> Rat(0, 1)]
                 ELSE [flowCFS |-> damHistory.data[n].flowCFS,
                       timestamp |-> damHistory.data[n].timestamp,
                       percentOfTotal |-> Rat(0, 1)]
  IN  [name |-> damHistory.name, stationId |-> damHistory.stationId,
       current |-> current,
       historical48h |-> calculateDamAggregates(damHistory.data)]

\* dam.current.percentOfTotal = currentTotal > 0 ? flowCFS / currentTotal * 100 : 0
WithPercent(dam, currentTotal) ==
  [dam EXCEPT !.current.percentOfTotal =
     IF currentTotal > 0 THEN Rat(dam.current.flowCFS * 100, currentTotal) ELSE Rat(0, 1)]

\* The body of fetchDamReleases once every station's history is there.  The
\* clock is read twice: calledAt is const now = new Date() at the entry,
\* aggregatedAt is new Date() in calculateCombinedAggregates after the await.
fetchDamReleases(results, calledAt, aggregatedAt) ==
  LET entries == [i \in 1..Len(results) |-> DamEntry(results[i])]
      currentTotal == SumSeq([i \in 1..Len(entries) |-> entries[i].current.flowCFS])
      damData == [i \in 1..Len(entries) |-> WithPercent(entries[i], currentTotal)]
      stamped == SelectSeq(damData, LAMBDA dam : Has(dam.current, "timestamp"))
      aggregate ==
        [timestamp |-> calledAt,
         current |-> [totalFlowCFS |-> currentTotal,
                      releaseLevel |-> determineReleaseLevel(currentTotal)],
         historical48h |-> calculateCombinedAggregates(results, aggregatedAt),
         dams |-> damData,
         source |-> "CDEC"]
  IN  IF Len(stamped) = 0 THEN aggregate
      ELSE [x \in DOMAIN aggregate \cup {"latestDataTimestamp"} |->
              IF x = "latestDataTimestamp"
              THEN MaxSeq([i \in 1..Len(stamped) |-> stamped[i].current.timestamp])
              ELSE aggregate[x]]

(***************************************************************************)
(* State                                                                   *)
(***************************************************************************)
VARIABLES
  now,                  \* the clock (Date.now(), new Date())
  pc,                   \* gather: "idle", "waiting" (inside await Promise.allSettled), "done"
  handler,              \* which gather runs: "fetchStaticData" or "GET"
  tidePhasePreference,  \* the caller's preference string, "none" when not given
  lookup,               \* per source, the state of its promise
  owl,                  \* the primary wave provider's call inside fetchWaveDataWithFallback
  buoyCalls,            \* number of calls of fetchWaveData (the buoy provider)
  result,               \* what gather returned (or threw)
  calls,                \* the invocations of calculateSwimScore, in order
  readings,             \* the reading set a direct caller of calculateSwimScore holds
  damPc,                \* fetchDamReleases: "idle", "waiting" (inside await Promise.all), "done"
  damLookup,            \* per monitored station, the state of its fetchDamFlowHistory promise
  damAggregate,         \* what fetchDamReleases returned
  damCalledAt,          \* fetchDamReleases: const now = new Date() at its entry
  cachedWQPStationId,   \* beachwatch.ts module variable: the discovered station id, or null
  cacheTimestamp,       \* beachwatch.ts module variable: when the id was stored (0 at load)
  wqpPc,                \* discoverWQPStation: the calls inside an await (a bag), each with its await
  discovery,            \* what the call of discoverWQPStation returning in the last step returned
  browserNow,           \* the browser's clock (Date.now()), in minutes
  storage,              \* localStorage under 'swimmingly-conditions-cache', or null
  cachedData,           \* useConditionsCache: the hook's cachedData state
  isCacheValid,         \* useConditionsCache: the hook's isCacheValid state
  served,               \* the latest call of getConditionsFromCache and what it returned
  tidePreferenceStorage, \* localStorage under 'swimmingly-tide-preference', or null
  reloading,            \* window.location.reload() was called and the page is not yet replaced
  preference,           \* useTidePreference: the selected tide preference
  requests,             \* CurrentConditions: the calls of fetchConditions, in order of issue
  conditions,           \* CurrentConditions: the conditions state (what is displayed)
  loading,              \* CurrentConditions: the loading state
  error                 \* CurrentConditions: the error state (a message or null)

vars == <<now, pc, handler, tidePhasePreference, lookup, owl, buoyCalls, result, calls, readings,
          damPc, damLookup, damAggregate, damCalledAt, cachedWQPStationId, cacheTimestamp, wqpPc, discovery,
          browserNow, storage, cachedData, isCacheValid, served,
          tidePreferenceStorage, reloading, preference, requests, conditions, loading, error>>

damVars == <<damPc, damLookup, damAggregate, damCalledAt>>

wqpVars == <<cachedWQPStationId, cacheTimestamp, wqpPc, discovery>>

\* What is kept between requests, on the server and in the browser.
cacheVars == <<browserNow, storage, cachedData, isCacheValid, served>>

dashboardVars == <<tidePreferenceStorage, reloading, preference, requests, conditions, loading, error>>

storeVars == <<wqpVars, cacheVars, dashboardVars>>

gatherVars == <<pc, handler, tidePhasePreference, lookup, owl, buoyCalls, result>>

StartClock == 10 * MsPerDay

Slots == {"tide", "current", "weather", "waves", "waterQuality", "recentSSOs", "windData",
          "damReleases"}

\* The lookups each handler hands to Promise.allSettled.
SlotsOf(h) == IF h = "GET" THEN Slots \ {"damReleases"} ELSE Slots

NotIssued == [status |-> "notIssued"]
Pending   == [status |-> "pending"]
Rejected  == [status |-> "rejected", reason |-> "request failed"]
Fulfilled(v) == [status |-> "fulfilled", value |-> v]

\* The dam side of the state at rest.
DamIdle ==
  /\ damPc = "idle"
  /\ damLookup = [i \in 1..Len(MONITORED_DAMS) |-> NotIssued]
  /\ damAggregate = NULL
  /\ damCalledAt = 0

\* The null of a variable that otherwise holds a station id.
NoStation == "null"

\* The browser before the page is loaded: nothing stored, the hook's and
\* the component's state at their useState defaults.
CacheIdle ==
  /\ browserNow = 0
  /\ storage = NULL
  /\ cachedData = NULL
  /\ isCacheValid = FALSE
  /\ served = NULL

\* The null of the error state, which otherwise holds a message.
NoError == "null"

\* The null of localStorage.getItem for the preference key.
NoStoredPreference == "null"

\* useTidePreference's DEFAULT_PREFERENCE.
DEFAULT_PREFERENCE == "slack"

DashboardIdle ==
  /\ tidePreferenceStorage = NoStoredPreference
  /\ reloading = FALSE
  /\ preference = DEFAULT_PREFERENCE
  /\ requests = <<>>
  /\ conditions = NULL
  /\ loading = TRUE
  /\ error = NoError

\* Calls of discoverWQPStation that can be inside their awaits together (the
\* route handlers run concurrently).
MaxOverlap == 2

\* The stores as they are when the module has just been loaded.
StoresIdle ==
  /\ cachedWQPStationId = NoStation
  /\ cacheTimestamp = 0
  /\ wqpPc = EmptyBag
  /\ discovery = NULL
  /\ CacheIdle
  /\ DashboardIdle

\* A record with field f set to v, and a record without field f.
With(r, f, v) == [x \in DOMAIN r \cup {f} |-> IF x = f THEN v ELSE r[x]]
Without(r, f) == [x \in DOMAIN r \ {f} |-> r[x]]

(***************************************************************************)
(* What the providers can answer.  Every provider may also answer "no      *)
(* data" (null, or an empty list) or reject.                               *)
(***************************************************************************)
TideValues ==
  { [timestamp |-> StartClock, heightFeet |-> 3, type |-> "normal", source |-> "NOAA",
     currentPhase |-> "slack", changeRateFeetPerHour |-> 2],
    [timestamp |-> StartClock, heightFeet |-> 5, type |-> "normal", source |-> "NOAA",
     currentPhase |-> "ebb", changeRateFeetPerHour |-> 25],
    [timestamp |-> StartClock, heightFeet |-> 2, type |-> "normal", source |-> "NOAA",
     currentPhase |-> "flood", changeRateFeetPerHour |-> 12] }

CurrentValues ==
  { [timestamp |-> StartClock - 1, speedKnots |-> 180, direction |-> 45,
     lat |-> 378065, lon |-> -1224216, source |-> "NOAA"] }

WeatherValues ==
  { [timestamp |-> StartClock - 1, temperatureF |-> 58, windSpeedMph |-> 12,
     windDirection |-> 270, windGustMph |-> 18, visibilityMiles |-> 8,
     conditions |-> "light rain", source |-> "NOAA-NWS"] }

WindValues ==
  { [timestamp |-> StartClock - 2, windSpeedMph |-> 3, windDirection |-> 180,
     windGustMph |-> 7, source |-> "open-meteo"],
    [timestamp |-> StartClock - 2, windSpeedMph |-> 0, windDirection |-> 0,
     source |-> "open-meteo"] }

OwlValues   == { [timestamp |-> StartClock - 1, waveHeightFeet |-> 10, source |-> "OpenWaterLog"] }

BuoyValues  == { [timestamp |-> StartClock, waveHeightFeet |-> 40, swellPeriodSeconds |-> 9,
                  source |-> "NOAA-NDBC"] }

\* An argument left undefined by the caller (counts are never negative).
UndefinedCount == -1

\* The status a provider attaches to a bacterial count.
assessWaterQualityStatus(enterococcus, coliform) ==
  IF enterococcus # UndefinedCount /\ enterococcus > 500 THEN "closed"
  ELSE IF enterococcus # UndefinedCount /\ enterococcus > 104 THEN "warning"
  ELSE IF coliform # UndefinedCount /\ coliform > 1000 THEN "warning"
  ELSE IF coliform # UndefinedCount /\ coliform > 200 THEN "advisory"
  ELSE "safe"

\* The age of a sample in words; beyond six days the code prints the
\* sample's date, here its day number.
formatSampleAge(sampleDate, t) ==
  LET diffDays == (t - sampleDate) \div 24
  IN  IF diffDays = 0 THEN "today"
      ELSE IF diffDays = 1 THEN "yesterday"
      ELSE IF diffDays < 7 THEN ToString(diffDays) \o " days ago"
      ELSE ToString(sampleDate \div 24)

\* The reading fetchFromSFGov builds from the newer of the two locations'
\* records, read at hour t.
SFGovReading(sampleDate, enterococcus, locationName, stationId, t) ==
  [timestamp |-> sampleDate,
   enterococcusCount |-> enterococcus,
   status |-> assessWaterQualityStatus(enterococcus, UndefinedCount),
   source |-> "SF Beach Water Quality (" \o locationName \o ")",
   stationId |-> stationId,
   notes |-> "Sampled " \o formatSampleAge(sampleDate, t)]

WaterQualityValues ==
  { SFGovReading(StartClock - 30, 600, "Aquatic Park", "BAY#211_SL", StartClock) }

SSOValues ==
  { << [id |-> "sso-1", reportedAt |-> StartClock - 30, resolved |-> TRUE, source |-> "SFPUC"] >> }

\* A sample of a station's flow history.
Sample(t, flowCFS) == [timestamp |-> t, flowCFS |-> flowCFS]

\* The aggregate fetchDamReleases returns when two stations answered (Shasta
\* releasing heavily) and three did not.
DamValues ==
  { fetchDamReleases(
      << [name |-> "Folsom Dam", stationId |-> "FOL",
          data |-> <<Sample(StartClock - 30, 18000), Sample(StartClock - 1, 20000)>>],
         [name |-> "Oroville Dam", stationId |-> "ORO", data |-> <<>>],
         [name |-> "Shasta Dam", stationId |-> "SHA",
          data |-> <<Sample(StartClock - 30, 90000), Sample(StartClock - 2, 100000)>>],
         [name |-> "Pardee Dam", stationId |-> "PAR", data |-> <<>>],
         [name |-> "Camanche Dam", stationId |-> "CMN", data |-> <<>>] >>,
      StartClock, StartClock) }

ValuesOf(s) ==
  CASE s = "tide" -> TideValues
    [] s = "current" -> CurrentValues
    [] s = "weather" -> WeatherValues
    [] s = "waves" -> BuoyValues
    [] s = "waterQuality" -> WaterQualityValues
    [] s = "recentSSOs" -> SSOValues
    [] s = "windData" -> WindValues
    [] s = "damReleases" -> DamValues

\* The settled states of a lookup's promise.
Outcomes(s) ==
  {Rejected} \cup {Fulfilled(v) : v \in ValuesOf(s)}
  \cup {Fulfilled(IF s = "recentSSOs" THEN <<>> ELSE NULL)}

PreferenceStrings == {"none", "ebb"}

(***************************************************************************)
(* The merge step of gather (after await Promise.allSettled)               *)
(***************************************************************************)

\* customTidePreferences: built only from a valid preference string.
buildTidePreferences(pref) ==
  IF pref \in {"slack", "flood", "ebb"} THEN
    [slack |-> IF pref = "slack" THEN 100 ELSE 85,
     flood |-> IF pref = "flood" THEN 100 ELSE 85,
     ebb   |-> IF pref = "ebb" THEN 100 ELSE 85]
  ELSE NULL

\* x.status === 'fulfilled' ? x.value : null
Extract(x) == IF x.status = "fulfilled" THEN x.value ELSE NULL

\* Tide given a fallback value like every other source.
ExtractTideWithFallback(x) ==
  IF x.status = "fulfilled" /\ x.value # NULL THEN x.value
  ELSE [timestamp |-> StartClock, heightFeet |-> 0, type |-> "normal", source |-> "unavailable",
        currentPhase |-> "slack", changeRateFeetPerHour |-> 0]

\* tide.status === 'fulfilled' ? tide.value : null
ExtractTide(x) == Extract(x)

\* recentSSOs.status === 'fulfilled' ? recentSSOs.value : []
ExtractSSOs(x) == IF x.status = "fulfilled" THEN x.value ELSE <<>>

\* The check of the first version of the route: tide, weather, waves and
\* water quality all required.
HasRequiredDataAll(tideData, weatherData, waveData, waterQualityData) ==
  tideData # NULL /\ weatherData # NULL /\ waveData # NULL /\ waterQualityData # NULL

\* if (!tideData): tide is the only required reading.
HasRequiredData(tideData, weatherData, waveData, waterQualityData) ==
  tideData # NULL

calculateCurrentFromTide(tide, timestamp) ==
  [timestamp |-> timestamp,
   speedKnots |-> Abs(tide.changeRateFeetPerHour) * 4,
   direction |-> IF tide.currentPhase = "flood" THEN 90
                 ELSE IF tide.currentPhase = "ebb" THEN 270 ELSE 0,
   lat |-> 378065, lon |-> -1224216,
   source |-> "calculated-from-tide-rate"]

\* The estimate replaces the measurement
currentEstimated(currentData, tideData, timestamp) ==
  calculateCurrentFromTide(tideData, timestamp)

\* currentData || calculateCurrentFromTide(tideData, now)
currentWithFallback(currentData, tideData, timestamp) ==
  IF currentData # NULL THEN currentData ELSE calculateCurrentFromTide(tideData, timestamp)

\* The gust of a wind reading, an optional field, copied into r.
CopyGust(r, windDataResult) ==
  IF Has(windDataResult, "windGustMph") THEN With(r, "windGustMph", windDataResult.windGustMph)
  ELSE Without(r, "windGustMph")

\* The wind reading replaces the weather reading whole
weatherReplacedByWind(weatherData, windDataResult, timestamp) ==
  IF windDataResult # NULL THEN
    CopyGust([timestamp |-> windDataResult.timestamp, temperatureF |-> 60,
              windSpeedMph |-> windDataResult.windSpeedMph,
              windDirection |-> windDataResult.windDirection,
              visibilityMiles |-> 10, conditions |-> "unavailable",
              source |-> "open-meteo"],
             windDataResult)
  ELSE IF weatherData # NULL THEN weatherData
  ELSE
    [timestamp |-> timestamp, temperatureF |-> 60, windSpeedMph |-> 0, windDirection |-> 0,
     visibilityMiles |-> 10, conditions |-> "unavailable", source |-> "unavailable"]

weatherWithFallback(weatherData, windDataResult, timestamp) ==
  IF weatherData # NULL THEN
    IF windDataResult # NULL THEN
      CopyGust([weatherData EXCEPT !.windSpeedMph = windDataResult.windSpeedMph,
                                   !.windDirection = windDataResult.windDirection,
                                   !.source = "NOAA-NWS+open-meteo-wind"],
               windDataResult)
    ELSE weatherData
  ELSE IF windDataResult # NULL THEN
    CopyGust([timestamp |-> windDataResult.timestamp,
              temperatureF |-> IF Has(windDataResult, "temperatureF")
                               THEN windDataResult.temperatureF ELSE 60,
              windSpeedMph |-> windDataResult.windSpeedMph,
              windDirection |-> windDataResult.windDirection,
              visibilityMiles |-> 10,
              conditions |-> "unavailable",
              source |-> "open-meteo"],
             windDataResult)
  ELSE
    [timestamp |-> timestamp, temperatureF |-> 60, windSpeedMph |-> 0, windDirection |-> 0,
     visibilityMiles |-> 10, conditions |-> "unavailable", source |-> "unavailable"]

\* No fallback: the wave reading is handed on as it was extracted.
wavesWithoutFallback(waveData, timestamp) == waveData

wavesWithFallback(waveData, timestamp) ==
  IF waveData # NULL THEN waveData
  ELSE [timestamp |-> timestamp, waveHeightFeet |-> 0, source |-> "unavailable"]

waterQualityWithFallback(waterQualityData, timestamp) ==
  IF waterQualityData # NULL THEN waterQualityData
  ELSE [timestamp |-> timestamp, status |-> "safe", source |-> "unavailable"]

\* The readings handed to calculateSwimScore, in parameter order.
ScorerArgs(l, timestamp) ==
  LET tideData == ExtractTide(l["tide"])
  IN  [tide |-> tideData,
       current |-> currentWithFallback(Extract(l["current"]), tideData, timestamp),
       weather |-> weatherWithFallback(Extract(l["weather"]), Extract(l["windData"]), timestamp),
       waves |-> wavesWithFallback(Extract(l["waves"]), timestamp),
       waterQuality |-> waterQualityWithFallback(Extract(l["waterQuality"]), timestamp),
       recentSSOs |-> ExtractSSOs(l["recentSSOs"]),
       damReleases |-> Extract(l["damReleases"])]

\* x?.timestamp || now
TimestampOr(x, timestamp) == IF x # NULL THEN x.timestamp ELSE timestamp

\* The CurrentConditions object built around a score.
Conditions(l, a, score, timestamp) ==
  LET freshness ==
        [tide |-> a.tide.timestamp,
         weather |-> TimestampOr(Extract(l["weather"]), timestamp),
         waves |-> TimestampOr(Extract(l["waves"]), timestamp),
         waterQuality |-> TimestampOr(Extract(l["waterQuality"]), timestamp),
         sso |-> IF Len(a.recentSSOs) > 0 THEN a.recentSSOs[1].reportedAt ELSE timestamp]
      base ==
        [kind |-> "conditions", timestamp |-> timestamp, score |-> score, tide |-> a.tide,
         current |-> a.current, weather |-> a.weather, waves |-> a.waves,
         waterQuality |-> a.waterQuality, recentSSOs |-> a.recentSSOs]
  IN  IF a.damReleases # NULL
      THEN With(With(base, "damReleases", a.damReleases),
                "dataFreshness", With(freshness, "damReleases", a.damReleases.timestamp))
      ELSE With(base, "dataFreshness", freshness)

\* One entry of the details of the 503 response.
Detail(x) ==
  IF x.status = "rejected" THEN x.reason
  ELSE IF Extract(x) = NULL THEN "missing" ELSE "ok"

\* The 503 response of the route.
ServiceUnavailable(l) ==
  [kind |-> "response", status |-> 503, error |-> "Unable to fetch critical tide data",
   details |-> [tide |-> IF l["tide"].status = "rejected" THEN l["tide"].reason ELSE "missing",
                weather |-> Detail(l["weather"]),
                waves |-> Detail(l["waves"]),
                waterQuality |-> Detail(l["waterQuality"])]]

\* The error fetchStaticData throws.
CriticalTideError == [kind |-> "error", message |-> "Unable to fetch critical tide data"]

\* The 500 response of the route's catch block.
InternalServerError == [kind |-> "response", status |-> 500, error |-> "Internal server error"]

(***************************************************************************)
(* Gather: fetchStaticData and the conditions GET handler                  *)
(***************************************************************************)

Settled(x) == x.status \in {"fulfilled", "rejected"}

\* Continue as soon as the tide lookup has settled.
tideSettled(l, h) == Settled(l["tide"])

\* await Promise.allSettled([...]): every lookup handed over has settled.
allSettled(l, h) == \A s \in SlotsOf(h) : Settled(l[s])

\* The buoy is asked whatever the primary answered.
FallsBackAlways(o) == TRUE

\* fetchWaveDataWithFallback goes on to the buoy when the primary threw or
\* returned null.
FallsBack(o) == o.status = "rejected" \/ o.value = NULL

\* The handler is entered: every lookup is started before any is awaited.
\* In fetchStaticData the waves lookup is fetchWaveDataWithFallback, which
\* starts with the primary provider; in the route it is the buoy itself.
Start(h, p) ==
  /\ pc = "idle"
  /\ pc' = "waiting"
  /\ handler' = h
  /\ tidePhasePreference' = p
  /\ lookup' = [s \in Slots |-> IF s \in SlotsOf(h) THEN Pending ELSE NotIssued]
  /\ owl' = IF h = "fetchStaticData" THEN Pending ELSE NotIssued
  /\ buoyCalls' = IF h = "GET" THEN 1 ELSE 0
  /\ UNCHANGED <<storeVars, damVars, now, result, calls, readings>>

\* One lookup settles (for waves: only the route's direct buoy lookup).
Settle(s, o) ==
  /\ pc = "waiting"
  /\ lookup[s].status = "pending"
  /\ s = "waves" => handler = "GET"
  /\ lookup' = [lookup EXCEPT ![s] = o]
  /\ UNCHANGED <<storeVars, damVars, now, pc, handler, tidePhasePreference, owl, buoyCalls, result, calls, readings>>

\* fetchWaveDataWithFallback: the primary provider answers.
OwlSettle(o) ==
  /\ pc = "waiting"
  /\ owl.status = "pending"
  /\ owl' = o
  /\ IF FallsBack(o)
     THEN buoyCalls' = buoyCalls + 1 /\ lookup' = lookup
     ELSE buoyCalls' = buoyCalls /\ lookup' = [lookup EXCEPT !["waves"] = Fulfilled(o.value)]
  /\ UNCHANGED <<storeVars, damVars, now, pc, handler, tidePhasePreference, result, calls, readings>>

\* fetchWaveDataWithFallback: return fetchWaveData() - the buoy's answer is
\* the answer of the whole waves lookup.
BuoySettle(o) ==
  /\ pc = "waiting"
  /\ handler = "fetchStaticData"
  /\ Settled(owl)
  /\ lookup["waves"].status = "pending"
  /\ lookup' = [lookup EXCEPT !["waves"] = o]
  /\ UNCHANGED <<storeVars, damVars, now, pc, handler, tidePhasePreference, owl, buoyCalls, result, calls, readings>>

\* fetchStaticData after the await: extraction, the tide check, fallbacks,
\* scoring, the conditions object.
FetchStaticDataReturn ==
  /\ pc = "waiting"
  /\ handler = "fetchStaticData"
  /\ allSettled(lookup, handler)
  /\ LET customTidePreferences == buildTidePreferences(tidePhasePreference)
         a == ScorerArgs(lookup, now)
         score == calculateSwimScore(a.tide, a.current, a.weather, a.waves, a.waterQuality,
                                     a.recentSSOs, a.damReleases, customTidePreferences, now)
     IN  IF ~HasRequiredData(ExtractTide(lookup["tide"]), Extract(lookup["weather"]),
                             Extract(lookup["waves"]), Extract(lookup["waterQuality"]))
         THEN /\ result' = CriticalTideError
              /\ calls' = calls
         ELSE /\ calls' = Append(calls, [args |-> a, prefs |-> customTidePreferences,
                                         at |-> now, result |-> score])
              /\ result' = Conditions(lookup, a, score, now)
  /\ pc' = "done"
  /\ UNCHANGED <<storeVars, damVars, now, handler, tidePhasePreference, lookup, owl, buoyCalls, readings>>

\* The route after the await.  It calls calculateSwimScore with seven
\* arguments, so customTidePreferences arrives as damReleases and the
\* preference parameter is undefined; a preference object has no dams, and
\* scoreDamReleases throws on dams.reduce, which the route's catch block
\* turns into a 500 response.
GETReturn ==
  /\ pc = "waiting"
  /\ handler = "GET"
  /\ allSettled(lookup, handler)
  /\ LET customTidePreferences == buildTidePreferences(tidePhasePreference)
         a == [ScorerArgs(lookup, now) EXCEPT !.damReleases = customTidePreferences]
         score == calculateSwimScore(a.tide, a.current, a.weather, a.waves, a.waterQuality,
                                     a.recentSSOs, NULL, NULL, now)
     IN  IF ~HasRequiredData(ExtractTide(lookup["tide"]), Extract(lookup["weather"]),
                             Extract(lookup["waves"]), Extract(lookup["waterQuality"]))
         THEN /\ result' = ServiceUnavailable(lookup)
              /\ calls' = calls
         ELSE IF customTidePreferences # NULL
         THEN /\ calls' = Append(calls, [args |-> a, prefs |-> NULL, at |-> now,
                                         result |-> [threw |-> "TypeError"]])
              /\ result' = InternalServerError
         ELSE /\ calls' = Append(calls, [args |-> a, prefs |-> NULL, at |-> now,
                                         result |-> score])
              /\ result' = Conditions(lookup, a, score, now)
  /\ pc' = "done"
  /\ UNCHANGED <<storeVars, damVars, now, handler, tidePhasePreference, lookup, owl, buoyCalls, readings>>

Init ==
  /\ now = StartClock
  /\ pc = "idle"
  /\ handler = "none"
  /\ tidePhasePreference = "none"
  /\ lookup = [s \in Slots |-> NotIssued]
  /\ owl = NotIssued
  /\ buoyCalls = 0
  /\ result = NULL
  /\ calls = <<>>
  /\ readings = NULL
  /\ DamIdle
  /\ StoresIdle

Next ==
  \/ \E h \in {"fetchStaticData", "GET"}, p \in PreferenceStrings : Start(h, p)
  \/ \E s \in Slots : \E o \in Outcomes(s) : Settle(s, o)
  \/ \E o \in {Rejected, Fulfilled(NULL)} \cup {Fulfilled(v) : v \in OwlValues} : OwlSettle(o)
  \/ \E o \in Outcomes("waves") : BuoySettle(o)
  \/ FetchStaticDataReturn
  \/ GETReturn

Spec == Init /\ [][Next]_vars

(***************************************************************************)
(* Direct callers of calculateSwimScore: a caller holds one reading set    *)
(* and invokes the scorer on it, possibly again later and with another     *)
(* preference (as the dashboard's recalculateScore does).                  *)
(***************************************************************************)

\* Number of clock steps that may pass between the two invocations.
MaxTicks == 2

\* Hours the clock advances in one step.
TickHours == 6

TideInputs ==
  { NULL,
    [timestamp |-> StartClock, heightFeet |-> 3, type |-> "normal", currentPhase |-> "slack",
     changeRateFeetPerHour |-> 2],
    [timestamp |-> StartClock, heightFeet |-> 4, type |-> "normal", currentPhase |-> "flood",
     changeRateFeetPerHour |-> 15],
    [timestamp |-> StartClock, heightFeet |-> 5, type |-> "normal", currentPhase |-> "ebb",
     changeRateFeetPerHour |-> -25] }

CurrentInputs ==
  { NULL } \cup
  { [timestamp |-> StartClock, speedKnots |-> v, direction |-> 90, lat |-> 378065,
     lon |-> -1224216, source |-> "NOAA"] : v \in {10, 250} }

WeatherInputs ==
  { [timestamp |-> StartClock, temperatureF |-> 60, windSpeedMph |-> 0, windDirection |-> 0,
     visibilityMiles |-> 10, conditions |-> "unavailable", source |-> "unavailable"],
    [timestamp |-> StartClock, temperatureF |-> 58, windSpeedMph |-> 3, windDirection |-> 270,
     visibilityMiles |-> 8, conditions |-> "clear", source |-> "NOAA-NWS"],
    [timestamp |-> StartClock, temperatureF |-> 52, windSpeedMph |-> 30, windDirection |-> 200,
     visibilityMiles |-> 2, conditions |-> "thunderstorm", source |-> "NOAA-NWS"] }

WaveInputs ==
  { [timestamp |-> StartClock, waveHeightFeet |-> 0, source |-> "unavailable"] } \cup
  { [timestamp |-> StartClock, waveHeightFeet |-> h, source |-> "NOAA-NDBC"] : h \in {10, 90} }

WaterQualityInputs ==
  { NULL, [timestamp |-> StartClock, status |-> "safe", source |-> "unavailable"] } \cup
  { SFGovReading(StartClock, c, "Aquatic Park", "BAY#211_SL", StartClock) : c \in {50, 1500} }

\* Overflow lists, by the age of the event at StartClock and its resolution.
SSOInputs ==
  { <<>> } \cup
  { << [id |-> "sso-1", reportedAt |-> StartClock - age, resolved |-> r, source |-> "SFPUC"] >> :
      <<age, r>> \in { <<200, FALSE>>, <<70, TRUE>>, <<48, TRUE>> } }

\* No aggregate, an aggregate as fetchDamReleases returns it, and aggregates
\* carrying the top-level fields scoreDamReleases reads.
DamInputs ==
  { NULL } \cup DamValues \cup
  {
    [timestamp |-> StartClock, totalFlowCFS |-> 10000, releaseLevel |-> "low",
     dams |-> << [name |-> "Folsom Dam", flowCFS |-> 4000],
                 [name |-> "Shasta Dam", flowCFS |-> 6000] >>, source |-> "CDEC"],
    [timestamp |-> StartClock, totalFlowCFS |-> 120000, releaseLevel |-> "extreme",
     dams |-> << [name |-> "Folsom Dam", flowCFS |-> 20000],
                 [name |-> "Shasta Dam", flowCFS |-> 100000] >>, source |-> "CDEC"] }

PreferenceInputs ==
  { NULL, [slack |-> 85, flood |-> 100, ebb |-> 85], [slack |-> 0, flood |-> 50, ebb |-> 100] }

ReadingSets ==
  [tide : TideInputs, current : CurrentInputs, weather : WeatherInputs, waves : WaveInputs,
   waterQuality : WaterQualityInputs, recentSSOs : SSOInputs, damReleases : DamInputs]

\* calculateSwimScore is called directly on the reading set (times are Date
\* values, as the data functions return them) with preference p.
Invoke(p) ==
  /\ readings # NULL
  /\ Len(calls) < 2
  /\ calls' = Append(calls,
       [args |-> readings, prefs |-> p, at |-> now,
        result |-> calculateSwimScore(readings.tide, readings.current, readings.weather,
                                      readings.waves, readings.waterQuality,
                                      readings.recentSSOs, readings.damReleases, p, now)])
  /\ UNCHANGED <<storeVars, damVars, now, readings, gatherVars>>

\* Time passes between the first invocation and the second.
Tick ==
  /\ readings # NULL
  /\ Len(calls) = 1
  /\ now < StartClock + MaxTicks * TickHours
  /\ now' = now + TickHours
  /\ UNCHANGED <<storeVars, damVars, calls, readings, gatherVars>>

InitScore ==
  /\ now = StartClock
  /\ pc = "idle"
  /\ handler = "none"
  /\ tidePhasePreference = "none"
  /\ lookup = [s \in Slots |-> NotIssued]
  /\ owl = NotIssued
  /\ buoyCalls = 0
  /\ result = NULL
  /\ calls = <<>>
  /\ readings \in ReadingSets
  /\ DamIdle
  /\ StoresIdle

NextScore ==
  \/ \E p \in PreferenceInputs : Invoke(p)
  \/ Tick

SpecScore == InitScore /\ [][NextScore]_vars

(***************************************************************************)
(* Properties                                                              *)
(***************************************************************************)

\* A lookup that settled without a reading: rejected, or resolved to null.
Absent(x) == x.status = "rejected" \/ (x.status = "fulfilled" /\ x.value = NULL)

\* A lookup that settled with a reading.
Present(x) == x.status = "fulfilled" /\ x.value # NULL

IsCriticalFailure(r) ==
  \/ r = [kind |-> "error", message |-> "Unable to fetch critical tide data"]
  \/ (Has(r, "status") /\ r.status = 503)

\* C1: when the tide lookup rejects or resolves to no data, gather ends in a
\* critical failure and calculateSwimScore is never invoked, whatever the
\* other lookups answered.
C1_NoTideNoScore ==
  Absent(lookup["tide"]) =>
    /\ calls = <<>>
    /\ pc = "done" => IsCriticalFailure(result)

C1_Witness ==
  /\ pc = "done"
  /\ Absent(lookup["tide"])
  /\ Present(lookup["weather"])
  /\ Present(lookup["waterQuality"])
  /\ IsCriticalFailure(result)

NonTideSlots == Slots \ {"tide", "recentSSOs"}

\* C2: when the tide lookup succeeds, fetchStaticData returns a complete
\* conditions object with a computed score, whatever the other lookups
\* answered.
C2_TideSufficesForScore ==
  (pc = "done" /\ handler = "fetchStaticData" /\ Present(lookup["tide"])) =>
    /\ Has(result, "kind") /\ result.kind = "conditions"
    /\ Len(calls) = 1
    /\ result.score = calls[1].result
    /\ result.score.overallScore \in 0..100
    /\ \A f \in {"tide", "current", "weather", "waves", "waterQuality"} : result[f] # NULL

C2_Witness ==
  /\ pc = "done"
  /\ handler = "fetchStaticData"
  /\ Present(lookup["tide"])
  /\ \A s \in NonTideSlots : Absent(lookup[s])
  /\ lookup["current"].status = "rejected"
  /\ lookup["weather"].status = "fulfilled"
  /\ lookup["recentSSOs"].status = "rejected"
  /\ result.kind = "conditions"

FactorNames == {"waterQuality", "tideAndCurrent", "waves", "weather", "damReleases"}

\* C3: every factor score lies in [0,100] (0..1000 tenths) and overallScore
\* lies in [0,100].
C3_ScoresInRange ==
  \A i \in 1..Len(calls) :
    /\ \A f \in FactorNames : calls[i].result.factors[f].score \in 0..1000
    /\ calls[i].result.overallScore \in 0..100

C3_Witness ==
  /\ Len(calls) = 2
  /\ calls[1].result.overallScore = 100
  /\ calls[2].result.factors.tideAndCurrent.score = 0

\* C4: the weights are 30, 25, 20, 15 and 10, they sum to 100, and
\* overallScore is round(sum of factor score x weight / 100) over the five
\* factors.
C4_WeightedRoundedAverage ==
  /\ SCORE_WEIGHTS.waterQuality = 30
  /\ SCORE_WEIGHTS.tideAndCurrent = 25
  /\ SCORE_WEIGHTS.waves = 20
  /\ SCORE_WEIGHTS.weather = 15
  /\ damReleasesWeight = 10
  /\ SCORE_WEIGHTS.waterQuality + SCORE_WEIGHTS.tideAndCurrent + SCORE_WEIGHTS.waves
       + SCORE_WEIGHTS.weather + damReleasesWeight = 100
  /\ \A i \in 1..Len(calls) :
       LET f == calls[i].result.factors
           sum == 30 * f.waterQuality.score + 25 * f.tideAndCurrent.score
                  + 20 * f.waves.score + 15 * f.weather.score + 10 * f.damReleases.score
           o == calls[i].result.overallScore
       IN  \* o is the integer nearest to sum / 1000, a half rounding up
           /\ 2 * sum - 1000 < 2000 * o
           /\ 2000 * o <= 2 * sum + 1000

\* A score that was rounded up: the weighted average has a fraction of at
\* least one half.
C4_Witness ==
  /\ Len(calls) >= 1
  /\ LET f == calls[1].result.factors
         sum == 30 * f.waterQuality.score + 25 * f.tideAndCurrent.score
                + 20 * f.waves.score + 15 * f.weather.score + 10 * f.damReleases.score
     IN  /\ calls[1].result.overallScore * 1000 > sum
         /\ f.tideAndCurrent.score = 595

GatherScored == pc = "done" /\ handler = "fetchStaticData" /\ Len(calls) = 1

\* C5 (as claimed): a non-tide source absent in gather leaves its factor with
\* a non-empty issues list and a conservative score; absent water-quality
\* data gives score 50, status advisory and an issue.
C5_AbsentSourceIsFlagged ==
  GatherScored =>
    LET f == calls[1].result.factors
    IN  /\ Absent(lookup["waterQuality"]) =>
             /\ f.waterQuality.score = 500
             /\ f.waterQuality.status = "advisory"
             /\ f.waterQuality.issues # <<>>
        /\ Absent(lookup["waves"]) =>
             (f.waves.issues # <<>> /\ f.waves.score < 1000)
        /\ (Absent(lookup["weather"]) /\ Absent(lookup["windData"])) =>
             (f.weather.issues # <<>> /\ f.weather.score < 1000)
        /\ Absent(lookup["damReleases"]) =>
             (f.damReleases.issues # <<>> /\ f.damReleases.score < 1000)

\* C6 (as claimed): every non-tide reading handed to calculateSwimScore is
\* non-null, dam releases included.
C6_NoNullReachesScorer ==
  GatherScored =>
    \A f \in {"current", "weather", "waves", "waterQuality", "damReleases"} :
      calls[1].args[f] # NULL

\* C6 (amended): the current, weather, waves and water-quality readings handed
\* to calculateSwimScore are non-null, a fallback built without provider data
\* carries source "unavailable", and an absent dam aggregate is handed over
\* as null.
C6_FallbacksExceptDam ==
  GatherScored =>
    LET a == calls[1].args
    IN  /\ \A f \in {"current", "weather", "waves", "waterQuality"} : a[f] # NULL
        /\ Absent(lookup["waves"]) => a.waves.source = "unavailable"
        /\ Absent(lookup["waterQuality"]) => a.waterQuality.source = "unavailable"
        /\ (Absent(lookup["weather"]) /\ Absent(lookup["windData"])) =>
             a.weather.source = "unavailable"
        /\ Absent(lookup["damReleases"]) <=> a.damReleases = NULL

C6_Witness ==
  /\ GatherScored
  /\ \A s \in NonTideSlots : Absent(lookup[s])
  /\ calls[1].args.waves.source = "unavailable"
  /\ calls[1].args.damReleases = NULL

\* C7: all lookups are started together, the merge and scoring step runs only
\* after every lookup has settled, and what fetchStaticData returns is fixed
\* by the lookups' outcomes: a critical failure when tide is absent, else a
\* full reading set with its score - never a partial result.
C7_MergeAfterAllSettled ==
  /\ pc = "waiting" => \A s \in SlotsOf(handler) : lookup[s].status # "notIssued"
  /\ pc # "done" => (calls = <<>> /\ result = NULL)
  /\ (pc = "done" /\ handler = "fetchStaticData") =>
       /\ \A s \in Slots : lookup[s].status \in {"fulfilled", "rejected"}
       /\ IF Absent(lookup["tide"])
          THEN result = CriticalTideError /\ calls = <<>>
          ELSE /\ Len(calls) = 1
               /\ calls[1].args = ScorerArgs(lookup, now)
               /\ result = Conditions(lookup, calls[1].args, calls[1].result, now)
               /\ \A f \in {"score", "tide", "current", "weather", "waves", "waterQuality"} :
                    Has(result, f) /\ result[f] # NULL

C7_Witness ==
  /\ pc = "done"
  /\ handler = "fetchStaticData"
  /\ Present(lookup["tide"])
  /\ Present(lookup["damReleases"])
  /\ lookup["weather"].status = "rejected"
  /\ Absent(lookup["waves"])
  /\ result.kind = "conditions"
  /\ result.waves.source = "unavailable"
  /\ result.damReleases.current.releaseLevel = "extreme"

\* C8: the buoy provider is called at most once per gather and only after the
\* primary provider threw or returned nothing; the wave reading used is the
\* primary's when the primary succeeds, the buoy's own reading when only the
\* buoy succeeds, and {height 0, source "unavailable"} when both fail.
C8_WaveFallbackChain ==
  handler = "fetchStaticData" =>
    /\ buoyCalls <= 1
    /\ buoyCalls = 1 => (owl.status = "rejected" \/ (owl.status = "fulfilled" /\ owl.value = NULL))
    /\ lookup["waves"].status # "pending" => owl.status \in {"fulfilled", "rejected"}
    /\ (pc = "done" /\ Len(calls) = 1) =>
         IF Present(owl)
         THEN result.waves = owl.value /\ buoyCalls = 0
         ELSE IF Present(lookup["waves"])
         THEN /\ result.waves = lookup["waves"].value
              /\ result.waves \in BuoyValues
              /\ buoyCalls = 1
         ELSE /\ result.waves.waveHeightFeet = 0
              /\ result.waves.source = "unavailable"
              /\ buoyCalls = 1

C8_Witness ==
  /\ pc = "done"
  /\ handler = "fetchStaticData"
  /\ owl.status = "rejected"
  /\ buoyCalls = 1
  /\ result.kind = "conditions"
  /\ result.waves.source = "NOAA-NDBC"

SamePreference == Len(calls) = 2 /\ calls[1].prefs = calls[2].prefs

\* C9 (as claimed): two invocations with identical arguments return identical
\* SwimScore values, timestamp included, whenever each of them runs.
C9_IdenticalWheneverInvoked ==
  SamePreference => calls[1].result = calls[2].result

\* The age of an overflow event in whole days at time t.
WholeDays(sso, t) == (t - sso.reportedAt) \div 24

\* No overflow event's age in whole days differs between the two invocations.
SameWholeDays ==
  \A k \in 1..Len(readings.recentSSOs) :
    WholeDays(readings.recentSSOs[k], calls[1].at) = WholeDays(readings.recentSSOs[k], calls[2].at)

\* C9 (amended): two invocations with identical arguments return SwimScore
\* values that agree in everything but the timestamp, provided no overflow
\* event's age in whole days differs between the two moments; the timestamp
\* is the moment of the invocation.
C9_IdenticalUpToClock ==
  SamePreference =>
    /\ calls[1].result.timestamp = calls[1].at
    /\ calls[2].result.timestamp = calls[2].at
    /\ SameWholeDays =>
         [calls[1].result EXCEPT !.timestamp = 0] = [calls[2].result EXCEPT !.timestamp = 0]

C9_Witness ==
  /\ SamePreference
  /\ calls[1].at < calls[2].at
  /\ SameWholeDays
  /\ calls[1].result.factors.waterQuality.recentSSO
  /\ calls[2].result.factors.waterQuality.daysSinceSSO = 2

\* C10 (as claimed): for one reading set, two preferences give identical
\* waterQuality, waves, weather and damReleases factors, whenever each of the
\* two invocations runs; only tideAndCurrent may differ.
C10_PreferenceFrameWheneverInvoked ==
  Len(calls) = 2 =>
    LET f == calls[1].result.factors
        g == calls[2].result.factors
    IN  /\ f.waterQuality = g.waterQuality
        /\ f.waves = g.waves
        /\ f.weather = g.weather
        /\ f.damReleases = g.damReleases

\* C10 (amended): for one reading set, two preferences give identical waves,
\* weather and damReleases factors, and an identical waterQuality factor
\* provided no overflow event's age in whole days differs between the two
\* moments of invocation; only tideAndCurrent may differ.
C10_PreferenceFrame ==
  Len(calls) = 2 =>
    LET f == calls[1].result.factors
        g == calls[2].result.factors
    IN  /\ f.waves = g.waves
        /\ f.weather = g.weather
        /\ f.damReleases = g.damReleases
        /\ SameWholeDays => f.waterQuality = g.waterQuality

C10_Witness ==
  /\ Len(calls) = 2
  /\ calls[1].at < calls[2].at
  /\ SameWholeDays
  /\ calls[1].prefs = NULL
  /\ calls[2].prefs # NULL
  /\ readings.damReleases # NULL
  /\ calls[1].result.factors.waterQuality.recentSSO
  /\ calls[1].result.factors.tideAndCurrent.score # calls[2].result.factors.tideAndCurrent.score

(***************************************************************************)
(* scoreWaterQuality applied on its own                                    *)
(***************************************************************************)

\* The gather side of the state at rest.
GatherIdle ==
  /\ pc = "idle"
  /\ handler = "none"
  /\ tidePhasePreference = "none"
  /\ lookup = [s \in Slots |-> NotIssued]
  /\ owl = NotIssued
  /\ buoyCalls = 0
  /\ result = NULL

\* Bacterial counts on both sides of every band boundary.
EnterococcusCounts == {50, 104, 105, 500, 501, 1000, 1001}

ScoredWaterQualityInputs ==
  { NULL, [timestamp |-> StartClock, status |-> "safe", source |-> "unavailable"] } \cup
  { SFGovReading(StartClock, c, "Aquatic Park", "BAY#211_SL", StartClock) : c \in EnterococcusCounts }

\* Overflow events one hour inside and exactly on the edge of the three-day
\* caution window (ages in hours at StartClock), resolved or not.
OverflowEvents ==
  { [id |-> "sso", reportedAt |-> StartClock - age, resolved |-> r, source |-> "SFPUC"] :
      age \in {71, 72}, r \in BOOLEAN }

OverflowLists ==
  { <<>> } \cup { <<e>> : e \in OverflowEvents }
  \cup { <<e1, e2>> : e1 \in OverflowEvents, e2 \in OverflowEvents }

\* const waterQualityFactor = scoreWaterQuality(waterQuality, recentSSOs)
CallScoreWaterQuality ==
  /\ calls = <<>>
  /\ calls' = <<[args |-> readings, at |-> now,
                 result |-> scoreWaterQuality(readings.waterQuality, readings.recentSSOs, now)]>>
  /\ UNCHANGED <<storeVars, damVars, now, readings, gatherVars>>

InitWaterQuality ==
  /\ now = StartClock
  /\ GatherIdle
  /\ calls = <<>>
  /\ readings \in [waterQuality : ScoredWaterQualityInputs, recentSSOs : OverflowLists]
  /\ DamIdle
  /\ StoresIdle

NextWaterQuality == CallScoreWaterQuality

SpecWaterQuality == InitWaterQuality /\ [][NextWaterQuality]_vars

\* The score (in tenths) the claim gives a bacterial count.
C11_BaseScore(count) ==
  IF count <= 104 THEN 1000 ELSE IF count <= 500 THEN 700 ELSE IF count <= 1000 THEN 300 ELSE 0

\* The status that goes with a bacterial count's band.
C11_BaseStatus(count) ==
  IF count <= 104 THEN "safe" ELSE IF count <= 500 THEN "advisory"
  ELSE IF count <= 1000 THEN "warning" ELSE "dangerous"

\* C11: scoreWaterQuality gives a count the base score 100 / 70 / 30 / 0 for
\* count <= 104 / <= 500 / <= 1000 / > 1000; an unresolved overflow event
\* makes the score min(score, 20) and the status dangerous; otherwise an
\* event reported less than three days ago makes the score min(score, 60) and
\* the status at least advisory; otherwise score and status are the base
\* ones.
C11_BandsThenOverflowCaps ==
  \A i \in 1..Len(calls) :
    LET wq == calls[i].args.waterQuality
        ssos == calls[i].args.recentSSOs
        r == calls[i].result
    IN  (wq # NULL /\ Has(wq, "enterococcusCount")) =>
          LET base == C11_BaseScore(wq.enterococcusCount)
              baseStatus == C11_BaseStatus(wq.enterococcusCount)
              unresolved == \E k \in 1..Len(ssos) : ~ssos[k].resolved
              recent == \E k \in 1..Len(ssos) : calls[i].at - ssos[k].reportedAt < 3 * 24
          IN  IF unresolved THEN r.score = Min(base, 200) /\ r.status = "dangerous"
              ELSE IF recent THEN
                /\ r.score = Min(base, 600)
                /\ r.status = IF baseStatus = "safe" THEN "advisory" ELSE baseStatus
              ELSE r.score = base /\ r.status = baseStatus

\* A clean count capped by a resolved event on the edge's near side, next to
\* an event exactly three days old that caps nothing.
C11_Witness ==
  /\ Len(calls) = 1
  /\ calls[1].args.waterQuality # NULL
  /\ Has(calls[1].args.waterQuality, "enterococcusCount")
  /\ calls[1].args.waterQuality.enterococcusCount = 104
  /\ Len(calls[1].args.recentSSOs) = 2
  /\ calls[1].args.recentSSOs[1].resolved /\ calls[1].args.recentSSOs[2].resolved
  /\ calls[1].at - calls[1].args.recentSSOs[1].reportedAt = 72
  /\ calls[1].at - calls[1].args.recentSSOs[2].reportedAt = 71
  /\ calls[1].result.score = 600
  /\ calls[1].result.status = "advisory"

(***************************************************************************)
(* scoreTideAndCurrent applied on its own                                  *)
(***************************************************************************)

\* Change rates (tenths ft/hr) on both sides of 1.0 and 2.0, of either sign.
ChangeRates == {-25, -20, -10, 9, 10, 19, 20}

\* Current speeds (hundredths of a knot) on both sides of 0.5, 1.0, 1.5, 2.0.
CurrentSpeeds == {49, 50, 100, 101, 150, 151, 200, 201}

ScoredTideInputs ==
  { NULL } \cup
  { [timestamp |-> StartClock, heightFeet |-> 3, type |-> "normal", currentPhase |-> ph,
     changeRateFeetPerHour |-> r] : ph \in {"slack", "flood", "ebb"}, r \in ChangeRates }

ScoredCurrentInputs ==
  { NULL } \cup
  { [timestamp |-> StartClock, speedKnots |-> v, direction |-> 90, lat |-> 378065,
     lon |-> -1224216, source |-> "NOAA"] : v \in CurrentSpeeds }

\* const tideCurrentFactor = scoreTideAndCurrent(tide, current, customTidePreferences)
CallScoreTideAndCurrent(p) ==
  /\ calls = <<>>
  /\ calls' = <<[args |-> readings, prefs |-> p, at |-> now,
                 result |-> scoreTideAndCurrent(readings.tide, readings.current, p)]>>
  /\ UNCHANGED <<storeVars, damVars, now, readings, gatherVars>>

InitTideAndCurrent ==
  /\ now = StartClock
  /\ GatherIdle
  /\ calls = <<>>
  /\ readings \in [tide : ScoredTideInputs, current : ScoredCurrentInputs]
  /\ DamIdle
  /\ StoresIdle

NextTideAndCurrent == \E p \in PreferenceInputs : CallScoreTideAndCurrent(p)

SpecTideAndCurrent == InitTideAndCurrent /\ [][NextTideAndCurrent]_vars

\* tier(base) of the claim, in tenths of a point; rate in tenths ft/hr.
C12_Tier(base, rate) ==
  LET a == IF rate < 0 THEN -rate ELSE rate
  IN  IF a < 10 THEN 10 * base
      ELSE IF a < 20 THEN (IF 7 * base <= 700 THEN 7 * base ELSE 700)
      ELSE (IF 4 * base <= 400 THEN 4 * base ELSE 400)

\* The tier's score under the claim's speed cap; speed in hundredths of a knot.
C12_Capped(score, speed) ==
  LET cap == IF speed > 200 THEN 200 ELSE IF speed > 150 THEN 400 ELSE 650
  IN  IF speed > 100 /\ cap < score THEN cap ELSE score

\* C12: with tide present, scoreTideAndCurrent gives min(tier(base),
\* speedCap), where base is the phase's preference (the custom one if
\* supplied, else slack 100, flood 85, ebb 85), tier(base) is base for
\* |changeRate| < 1.0, min(0.7 x base, 70) for |changeRate| < 2.0 and
\* min(0.4 x base, 40) beyond, and speedCap is 20 for speed > 2.0 kt, 40 for
\* speed > 1.5, 65 for speed > 1.0 and absent otherwise; favorable is true
\* iff the phase is slack or the speed is below 0.5 kt.
C12_TierThenSpeedCap ==
  \A i \in 1..Len(calls) :
    LET tide == calls[i].args.tide
        current == calls[i].args.current
        r == calls[i].result
    IN  tide # NULL =>
          LET prefs == IF calls[i].prefs # NULL THEN calls[i].prefs
                       ELSE [slack |-> 100, flood |-> 85, ebb |-> 85]
              base == prefs[tide.currentPhase]
              speed == IF current = NULL THEN 0 ELSE current.speedKnots
          IN  /\ r.score = C12_Capped(C12_Tier(base, tide.changeRateFeetPerHour), speed)
              /\ r.favorable <=> (tide.currentPhase = "slack" \/ speed < 50)

\* The default ebb preference in the middle tier (0.7 x 85 = 59.5) under a
\* cap of 65 that does not bite.
C12_Witness ==
  /\ Len(calls) = 1
  /\ calls[1].prefs = NULL
  /\ calls[1].args.tide # NULL
  /\ calls[1].args.tide.currentPhase = "ebb"
  /\ calls[1].args.tide.changeRateFeetPerHour = 19
  /\ calls[1].args.current # NULL
  /\ calls[1].args.current.speedKnots = 101
  /\ calls[1].result.score = 595
  /\ ~calls[1].result.favorable

(***************************************************************************)
(* fetchDamReleases: one request per monitored station, all in flight      *)
(* together (Promise.all), then the aggregation; the aggregate is what     *)
(* gather hands to scoreDamReleases.                                       *)
(***************************************************************************)

\* A row of a station's CSV answer: its time, and its value when the text
\* is a number ("---" and the like are not).
Row(t, v) == [dateTime |-> t, isNumber |-> TRUE, value |-> v]
NoValueRow(t) == [dateTime |-> t, isNumber |-> FALSE, value |-> 0]

RequestFailed == [ok |-> FALSE]
Answer(rows) == [ok |-> TRUE, rows |-> rows]

\* Hours of history in the long hourly series (the request covers whole
\* days, so it can hold more than 48 samples).
RampLength == 52

\* An hourly series ending one hour before StartClock, rising by 100 CFS an
\* hour from 10,000.
Ramp ==
  [i \in 1..RampLength |-> Row(StartClock - RampLength - 1 + i, 10000 + 100 * (i - 1))]

\* Twelve hourly samples ending one hour before StartClock: three opening
\* flows, six of 1 CFS, three closing flows.  The closing quarter's mean is
\* exactly 15% below or above the opening quarter's.
QuarterSeries(first, last) ==
  [i \in 1..12 |-> Row(StartClock - 13 + i,
                       IF i <= 3 THEN first[i] ELSE IF i >= 10 THEN last[i - 9] ELSE 1)]

\* What each station's request can come back with.  Rows are in time order.
StationResponses(i) ==
  CASE i = 1 ->
         { RequestFailed,
           Answer(<<NoValueRow(StartClock - 2), Row(StartClock - 1, 0)>>),
           Answer(<<Row(StartClock - 30, 10000), Row(StartClock - 24, 8000),
                    NoValueRow(StartClock - 10), Row(StartClock - 4, 9000),
                    Row(StartClock - 1, 11500)>>) }
    [] i = 2 ->
         { RequestFailed,
           Answer(<<Row(StartClock - 24, 20000), Row(StartClock - 5, 20000),
                    Row(StartClock - 2, 17000)>>) }
    [] i = 3 ->
         { RequestFailed, Answer(Ramp),
           Answer(<<Row(StartClock - 35, 120000), Row(StartClock - 1, 90000)>>) }
         \cup { Answer(<<Row(StartClock - 1, v)>>) : v \in {30000, 50000, 80000, 100000} }
    [] i = 4 ->
         { RequestFailed, Answer(<<Row(StartClock - 1, 1)>>) }
         \cup { Answer(QuarterSeries(first, last)) : first \in {<<100, 100, 100>>},
                                                     last \in {<<85, 85, 85>>, <<115, 115, 115>>} }
         \cup { Answer(QuarterSeries(first, last)) : first \in {<<33, 33, 34>>},
                                                     last \in {<<28, 28, 29>>, <<38, 38, 39>>} }
    [] i = 5 ->
         { RequestFailed,
           Answer(<<Row(StartClock - 4, 500), Row(StartClock - 3, 400),
                    Row(StartClock - 2, 300), Row(StartClock - 1, 200)>>) }

\* Only the histories that hold samples are kept.
ResultsWithSamples(l) ==
  SelectSeq([i \in 1..Len(l) |-> l[i].value], LAMBDA damHistory : Len(damHistory.data) > 0)

\* const results = await Promise.all(damPromises): one history per station,
\* in the order of MONITORED_DAMS.
Results(l) == [i \in 1..Len(l) |-> l[i].value]

\* fetchDamReleases is entered: every station's request is started.
StartDamFetch ==
  /\ damPc = "idle"
  /\ damPc' = "waiting"
  /\ damLookup' = [i \in 1..Len(MONITORED_DAMS) |-> Pending]
  /\ damCalledAt' = now
  /\ UNCHANGED <<storeVars, damAggregate, now, calls, readings, gatherVars>>

\* One station's fetchDamFlowHistory resolves (it never rejects).
StationSettle(i, response) ==
  /\ damPc = "waiting"
  /\ damLookup[i].status = "pending"
  /\ damLookup' = [damLookup EXCEPT ![i] =
       [status |-> "fulfilled", response |-> response,
        value |-> fetchDamFlowHistory(MONITORED_DAMS[i], response)]]
  /\ UNCHANGED <<storeVars, damPc, damAggregate, damCalledAt, now, calls, readings, gatherVars>>

\* The clock passes an hour boundary while the requests are pending; they are
\* bounded by their 15 s timeout, so it passes at most one.
DamClockTick ==
  /\ damPc = "waiting"
  /\ now = damCalledAt
  /\ now' = now + 1
  /\ UNCHANGED <<storeVars, damVars, calls, readings, gatherVars>>

\* await Promise.all(damPromises) is over: the aggregation.
FetchDamReleasesReturn ==
  /\ damPc = "waiting"
  /\ \A i \in 1..Len(MONITORED_DAMS) : damLookup[i].status = "fulfilled"
  /\ damAggregate' = fetchDamReleases(Results(damLookup), damCalledAt, now)
  /\ damPc' = "done"
  /\ UNCHANGED <<storeVars, damLookup, damCalledAt, now, calls, readings, gatherVars>>

\* const damReleasesFactor = scoreDamReleases(damReleases), on the aggregate
\* as gather passes it on.
ScoreDamAggregate ==
  /\ damPc = "done"
  /\ calls = <<>>
  /\ calls' = <<[args |-> [damReleases |-> damAggregate], at |-> now,
                 result |-> scoreDamReleases(damAggregate)]>>
  /\ UNCHANGED <<storeVars, damVars, now, readings, gatherVars>>

InitDam ==
  /\ now = StartClock
  /\ GatherIdle
  /\ DamIdle
  /\ StoresIdle
  /\ calls = <<>>
  /\ readings = NULL

NextDam ==
  \/ StartDamFetch
  \/ \E i \in 1..Len(MONITORED_DAMS) : \E response \in StationResponses(i) :
       StationSettle(i, response)
  \/ DamClockTick
  \/ FetchDamReleasesReturn
  \/ ScoreDamAggregate

SpecDam == InitDam /\ [][NextDam]_vars

(***************************************************************************)
(* scoreDamReleases applied on its own                                     *)
(***************************************************************************)

\* Current total flows on both sides of every threshold.
TotalFlows == {20000, 30000, 30001, 50000, 50001, 80000, 80001, 100000, 100001}

\* 24-hour average, 48-hour average and peak of the combined history.
FlowHistories ==
  { [last24h |-> 40000, last48h |-> 20000, peak |-> 60000],
    [last24h |-> 10000, last48h |-> 10000, peak |-> 10000],
    [last24h |-> 90000, last48h |-> 70000, peak |-> 95000],
    [last24h |-> 120000, last48h |-> 110000, peak |-> 130000] }

\* An aggregate of the shape fetchDamReleases returns: two stations, the
\* second one releasing the most.
NestedAggregate(total, h) ==
  [timestamp |-> StartClock,
   current |-> [totalFlowCFS |-> total, releaseLevel |-> determineReleaseLevel(total)],
   historical48h |->
     [averageFlowCFS |-> Rat(h.last48h, 1), peakFlowCFS |-> h.peak,
      peakTimestamp |-> StartClock - 20, trendDirection |-> "stable",
      last24hAverage |-> Rat(h.last24h, 1), last48hAverage |-> Rat(h.last48h, 1),
      dataPointsCount |-> 48],
   dams |-> << [name |-> "Folsom Dam", stationId |-> "FOL",
                current |-> [flowCFS |-> 5000, timestamp |-> StartClock - 1,
                             percentOfTotal |-> Rat(5000 * 100, total)],
                historical48h |-> [averageFlowCFS |-> Rat(5000, 1), peakFlowCFS |-> 5000,
                                   dataPoints |-> 48]],
               [name |-> "Shasta Dam", stationId |-> "SHA",
                current |-> [flowCFS |-> total - 5000, timestamp |-> StartClock - 1,
                             percentOfTotal |-> Rat((total - 5000) * 100, total)],
                historical48h |-> [averageFlowCFS |-> Rat(h.last48h - 5000, 1),
                                   peakFlowCFS |-> h.peak - 5000, dataPoints |-> 48]] >>,
   latestDataTimestamp |-> StartClock - 1,
   source |-> "CDEC"]

\* d with its current flow also at the top level, where scoreDamReleases
\* reads it.
FlatDam(d) == [x \in DOMAIN d \cup {"flowCFS"} |-> IF x = "flowCFS" THEN d.current.flowCFS ELSE d[x]]

\* The aggregate carrying, next to what fetchDamReleases returns, the
\* top-level totalFlowCFS, releaseLevel and dams[].flowCFS that
\* scoreDamReleases reads.
FlatAggregate(total, h) ==
  LET a == NestedAggregate(total, h)
  IN  [x \in DOMAIN a \cup {"totalFlowCFS", "releaseLevel"} |->
         CASE x = "totalFlowCFS" -> total
           [] x = "releaseLevel" -> a.current.releaseLevel
           [] x = "dams" -> [i \in 1..Len(a.dams) |-> FlatDam(a.dams[i])]
           [] OTHER -> a[x]]

ScoredDamInputs ==
  { NestedAggregate(total, h) : total \in TotalFlows, h \in FlowHistories }
  \cup { FlatAggregate(total, h) : total \in TotalFlows, h \in FlowHistories }

\* const damReleasesFactor = scoreDamReleases(damReleases)
CallScoreDamReleases ==
  /\ calls = <<>>
  /\ calls' = <<[args |-> readings, at |-> now,
                 result |-> scoreDamReleases(readings.damReleases)]>>
  /\ UNCHANGED <<storeVars, damVars, now, readings, gatherVars>>

InitDamScore ==
  /\ now = StartClock
  /\ GatherIdle
  /\ DamIdle
  /\ StoresIdle
  /\ calls = <<>>
  /\ readings \in [damReleases : ScoredDamInputs]

NextDamScore == CallScoreDamReleases

SpecDamScore == InitDamScore /\ [][NextDamScore]_vars

\* The score (in tenths) the claim gives an aggregate: by ten times its
\* scoringFlow, 10 x max(0.6 x last24hAverage + 0.4 x last48hAverage,
\* 0.8 x peakFlow), with the averages as fractions.
C13_ScoreOfScoringFlow(h) ==
  LET a == h.last24hAverage
      b == h.last48hAverage
      \* ten times the scoring flow exceeds ten times t
      over(t) == \/ 6 * a.n * b.d + 4 * b.n * a.d > 10 * t * a.d * b.d
                 \/ 8 * h.peakFlowCFS > 10 * t
  IN  IF over(100000) THEN 100
      ELSE IF over(80000) THEN 300
      ELSE IF over(50000) THEN 650
      ELSE IF over(30000) THEN 750
      ELSE 1000

\* C13 (as claimed): with an aggregate present the dam score is fixed by
\* scoringFlow = max(0.6 x last24hAverage + 0.4 x last48hAverage,
\* 0.8 x peakFlow): 100 / 75 / 65 / 30 / 10 for scoringFlow <= 30,000 /
\* > 30,000 / > 50,000 / > 80,000 / > 100,000; and the top contributor named
\* is the station with the highest current flow.
C13_ScoredOnScoringFlow ==
  \A i \in 1..Len(calls) :
    LET a == calls[i].args.damReleases
        r == calls[i].result
    IN  a # NULL =>
          /\ r.score = C13_ScoreOfScoringFlow(a.historical48h)
          /\ \E k \in 1..Len(a.dams) :
               /\ r.topContributor = a.dams[k].name
               /\ \A j \in 1..Len(a.dams) : a.dams[j].current.flowCFS <= a.dams[k].current.flowCFS

\* The score band (in tenths) that goes with a release level.
C14_BandOfLevel(level) ==
  CASE level = "extreme" -> {100}
    [] level = "high" -> {300}
    [] level = "moderate" -> {650, 750}
    [] level = "low" -> {1000}

\* C14 (as claimed): the aggregator's release level is extreme iff the total
\* flow exceeds 100,000, high iff it exceeds 80,000 (and is not extreme),
\* moderate iff it exceeds 30,000 (and is not high), else low; the scorer
\* applies the same thresholds, so level and score band agree for every
\* flow: a flow classified extreme scores 10, one classified low scores 100.
C14_LevelAndBandAgree ==
  damPc = "done" =>
    LET total == damAggregate.current.totalFlowCFS
        level == damAggregate.current.releaseLevel
    IN  /\ level = "extreme" <=> total > 100000
        /\ level = "high" <=> (total > 80000 /\ total <= 100000)
        /\ level = "moderate" <=> (total > 30000 /\ total <= 80000)
        /\ level = "low" <=> total <= 30000
        /\ Len(calls) = 1 => calls[1].result.score \in C14_BandOfLevel(level)

\* The rows of station i's answer that hold a positive number (none when
\* the request failed), as the claims speak of them.
SamplesAnswered(i) ==
  LET response == damLookup[i].response
  IN  IF response.ok
      THEN SelectSeq(response.rows, LAMBDA row : row.isNumber /\ row.value > 0)
      ELSE <<>>

Stations == 1..Len(MONITORED_DAMS)

\* C15: a station whose lookup fails or yields no valid samples contributes
\* current flow 0 and still has its entry in the per-station list, which
\* always holds exactly one entry per monitored station; whatever the
\* stations answered, fetchDamReleases returns an aggregate (all zero in the
\* worst case), never a failure.
C15_EveryStationListed ==
  damPc = "done" =>
    /\ damAggregate # NULL
    /\ Len(damAggregate.dams) = Len(MONITORED_DAMS)
    /\ \A i \in Stations :
         /\ damAggregate.dams[i].stationId = MONITORED_DAMS[i].stationId
         /\ damAggregate.dams[i].name = MONITORED_DAMS[i].name
         /\ Len(SamplesAnswered(i)) = 0 =>
              /\ damAggregate.dams[i].current.flowCFS = 0
              /\ damAggregate.dams[i].historical48h.dataPoints = 0
    /\ (\A i \in Stations : Len(SamplesAnswered(i)) = 0) =>
         /\ damAggregate.current.totalFlowCFS = 0
         /\ damAggregate.current.releaseLevel = "low"
         /\ damAggregate.historical48h.peakFlowCFS = 0
         /\ damAggregate.historical48h.dataPointsCount = 0

\* One station failed, one answered without a valid sample, one answered
\* with samples.
C15_Witness ==
  /\ damPc = "done"
  /\ ~damLookup[2].response.ok
  /\ damLookup[1].response.ok /\ Len(SamplesAnswered(1)) = 0
  /\ Len(SamplesAnswered(3)) > 0
  /\ damAggregate.dams[1].current.flowCFS = 0
  /\ damAggregate.dams[2].current.flowCFS = 0
  /\ damAggregate.current.totalFlowCFS > 0

\* The flow of station i's most recent sample, 0 without samples.
LatestFlow(i) ==
  LET samples == SamplesAnswered(i)
  IN  IF Len(samples) = 0 THEN 0 ELSE samples[Len(samples)].value

\* The sum of f over a set S of integers, split at the median of S.
RECURSIVE SumOver(_, _)
SumOver(f, S) ==
  IF S = {} THEN 0
  ELSE LET m == CHOOSE m \in S : Cardinality({ x \in S : x < m }) = Cardinality(S) \div 2
       IN  SumOver(f, { x \in S : x < m }) + f[m] + SumOver(f, { x \in S : x > m })

\* C16: the current total flow is the sum over all stations of the station's
\* own most recent sample (0 without samples), whatever the samples'
\* timestamps; a station's percent-of-total is its current flow divided by
\* that total, as a percentage, or 0 when the total is 0.
C16_TotalOfLatestSamples ==
  damPc = "done" =>
    LET total == SumOver([i \in Stations |-> LatestFlow(i)], Stations)
    IN  /\ damAggregate.current.totalFlowCFS = total
        /\ \A i \in Stations :
             LET dam == damAggregate.dams[i].current
             IN  /\ dam.flowCFS = LatestFlow(i)
                 /\ IF total = 0 THEN dam.percentOfTotal.n = 0
                    ELSE \* the fraction percentOfTotal equals 100 x flow / total
                         /\ total % dam.percentOfTotal.d = 0
                         /\ dam.percentOfTotal.n * (total \div dam.percentOfTotal.d)
                              = 100 * LatestFlow(i)

\* Two stations whose latest samples are of different hours.
C16_Witness ==
  /\ damPc = "done"
  /\ Len(SamplesAnswered(1)) > 1
  /\ Len(SamplesAnswered(2)) > 1
  /\ damAggregate.dams[1].current.timestamp # damAggregate.dams[2].current.timestamp
  /\ damAggregate.current.totalFlowCFS
       = damAggregate.dams[1].current.flowCFS + damAggregate.dams[2].current.flowCFS
  /\ damAggregate.dams[1].current.percentOfTotal.d > 1

\* The hours at which some station has a sample.
SampleTimes ==
  UNION { { SamplesAnswered(i)[k].dateTime : k \in 1..Len(SamplesAnswered(i)) } : i \in Stations }

\* The sum of the flows of exactly those samples taken at hour t.
FlowAtFrom(samples, k, t) ==
  SumOver([j \in k..Len(samples) |-> IF samples[j].dateTime = t THEN samples[j].value ELSE 0],
          k..Len(samples))

CombinedFlow == [t \in SampleTimes |-> SumOver([i \in Stations |-> FlowAtFrom(SamplesAnswered(i), 1, t)], Stations)]

\* The fraction q equals sum / count.
IsMean(q, sum, count) == q.d > 0 /\ count % q.d = 0 /\ q.n * (count \div q.d) = sum

\* C17: the combined series has one point per distinct sample timestamp,
\* whose value is the sum of the flows of exactly the stations having a
\* sample at that timestamp; the 48h average is the mean of all combined
\* points, the 24h average the mean of the combined points newer than
\* now - 24h, and the peak the maximum combined point with its timestamp.
C17_CombinedByExactTimestamp ==
  damPc = "done" =>
    LET h == damAggregate.historical48h
        recent == { t \in SampleTimes : t > now - 24 }
    IN  /\ h.dataPointsCount = Cardinality(SampleTimes)
        /\ SampleTimes # {} =>
             /\ IsMean(h.last48hAverage, SumOver(CombinedFlow, SampleTimes), Cardinality(SampleTimes))
             /\ h.averageFlowCFS = h.last48hAverage
             /\ IF recent = {} THEN h.last24hAverage.n = 0
                ELSE IsMean(h.last24hAverage, SumOver(CombinedFlow, recent), Cardinality(recent))
             /\ h.peakTimestamp \in SampleTimes
             /\ h.peakFlowCFS = CombinedFlow[h.peakTimestamp]
             /\ \A t \in SampleTimes : CombinedFlow[t] <= h.peakFlowCFS

\* Two stations share one sample hour and differ on others; one combined
\* point lies exactly 24 hours back and is left out of the 24h average.
C17_Witness ==
  /\ damPc = "done"
  /\ Len(SamplesAnswered(1)) = 4
  /\ Len(SamplesAnswered(2)) = 3
  /\ \A i \in {3, 4, 5} : Len(SamplesAnswered(i)) = 0
  /\ damAggregate.historical48h.dataPointsCount = 6
  /\ damAggregate.historical48h.peakFlowCFS = 28000
  /\ damAggregate.historical48h.peakTimestamp = damAggregate.timestamp - 24
  /\ damAggregate.historical48h.last24hAverage # damAggregate.historical48h.last48hAverage

\* The number of combined points compared at each end of the series.
C18_N == Min(12, Cardinality(SampleTimes) \div 4)

\* The sample hours of the first and of the last C18_N combined points.
C18_Earliest == { t \in SampleTimes : Cardinality({ u \in SampleTimes : u < t }) < C18_N }
C18_Latest == { t \in SampleTimes : Cardinality({ u \in SampleTimes : u > t }) < C18_N }

\* C18: with N = min(12, floor(points / 4)), the trend is increasing exactly
\* when the mean of the last N combined points exceeds the mean of the first
\* N by more than 15%, decreasing exactly when it is lower by more than 15%,
\* and stable otherwise, in particular when N is 0 or there are no points.
C18_TrendOfFirstAndLastPoints ==
  damPc = "done" =>
    LET firstSum == SumOver(CombinedFlow, C18_Earliest)
        lastSum == SumOver(CombinedFlow, C18_Latest)
        trend == damAggregate.historical48h.trendDirection
    IN  /\ trend \in {"increasing", "stable", "decreasing"}
        /\ C18_N = 0 => trend = "stable"
        /\ C18_N > 0 =>
             /\ trend = "increasing" <=> (lastSum - firstSum) * 100 > 15 * firstSum
             /\ trend = "decreasing" <=> (lastSum - firstSum) * 100 < -15 * firstSum

(***************************************************************************)
(* The current and weather readings fetchStaticData hands to the scorer.   *)
(***************************************************************************)
\* The source tags of the readings the providers measure.
MeasuredSourceTags ==
  UNION { { v.source : v \in ValuesOf(s) } : s \in {"tide", "current", "weather", "waves", "waterQuality", "windData"} }

\* C19: when the direct current lookup is absent and tide is present, the
\* current reading handed to the scorer has speed |tide change rate| x 0.4,
\* direction 90 for flood, 270 for ebb and 0 otherwise, and a source tag no
\* measured reading carries; when a direct measurement is present it is
\* handed over unchanged.  (Tenths of a foot per hour times 0.4 are
\* hundredths of a knot times 4.)
C19_CurrentEstimatedOnlyWhenAbsent ==
  GatherScored =>
    LET tide == calls[1].args.tide
        current == calls[1].args.current
    IN  /\ Present(lookup["current"]) => current = lookup["current"].value
        /\ Absent(lookup["current"]) =>
             /\ current.speedKnots = 4 * Abs(tide.changeRateFeetPerHour)
             /\ tide.currentPhase = "flood" => current.direction = 90
             /\ tide.currentPhase = "ebb" => current.direction = 270
             /\ tide.currentPhase \notin {"flood", "ebb"} => current.direction = 0
             /\ current.source \notin MeasuredSourceTags

\* A flood tide without a measured current: the estimate is 0.48 knots
\* eastward.
C19_Witness ==
  /\ GatherScored
  /\ Absent(lookup["current"])
  /\ calls[1].args.tide.currentPhase = "flood"
  /\ calls[1].args.current.speedKnots = 48
  /\ calls[1].args.current.direction = 90

\* The wind fields of reading r are those of reading w.
SameWind(r, w) ==
  /\ r.windSpeedMph = w.windSpeedMph
  /\ r.windDirection = w.windDirection
  /\ Has(r, "windGustMph") <=> Has(w, "windGustMph")
  /\ Has(w, "windGustMph") => r.windGustMph = w.windGustMph

\* C20: when both the NOAA weather lookup and the Open-Meteo wind lookup
\* succeed, the weather reading handed to the scorer has Open-Meteo's wind
\* speed, direction and gust, NOAA's temperature, visibility and condition,
\* and a source tag naming both; when only one succeeds, the wind fields are
\* that provider's, the fields it reports are its own and the fields it does
\* not report (temperature, visibility and condition of a wind-only reading)
\* are the fallback defaults.
C20_WindMerge ==
  GatherScored =>
    LET weather == calls[1].args.weather
        A == lookup["weather"].value
        B == lookup["windData"].value
    IN  /\ (Present(lookup["weather"]) /\ Present(lookup["windData"])) =>
             /\ SameWind(weather, B)
             /\ weather.temperatureF = A.temperatureF
             /\ weather.visibilityMiles = A.visibilityMiles
             /\ weather.conditions = A.conditions
             /\ weather.source = A.source \o "+" \o B.source \o "-wind"
        /\ (Present(lookup["weather"]) /\ Absent(lookup["windData"])) => weather = A
        /\ (Absent(lookup["weather"]) /\ Present(lookup["windData"])) =>
             /\ SameWind(weather, B)
             /\ weather.temperatureF = 60
             /\ weather.visibilityMiles = 10
             /\ weather.conditions = "unavailable"
             /\ weather.source = B.source

\* Both providers answered and the wind provider reported no gust: the merged
\* reading has the wind provider's calm wind and no gust, although the
\* weather provider reported one.
C20_Witness ==
  /\ GatherScored
  /\ Present(lookup["weather"])
  /\ Present(lookup["windData"])
  /\ Has(lookup["weather"].value, "windGustMph")
  /\ ~Has(lookup["windData"].value, "windGustMph")
  /\ ~Has(calls[1].args.weather, "windGustMph")
  /\ calls[1].args.weather.windSpeedMph = 0
  /\ calls[1].args.weather.temperatureF = 58

(***************************************************************************)
(* The diagnostic of a critical failure.                                   *)
(***************************************************************************)
\* C21 (as claimed): when gather fails for lack of tide data, the failure
\* carries a diagnostic map with exactly one entry for each lookup attempted
\* in that gather, telling ok, missing or the error message of the lookup.
C21_DiagnosticPerAttemptedLookup ==
  (pc = "done" /\ IsCriticalFailure(result)) =>
    /\ Has(result, "details")
    /\ DOMAIN result.details = SlotsOf(handler)
    /\ \A s \in SlotsOf(handler) :
         result.details[s] = (IF lookup[s].status = "rejected" THEN lookup[s].reason
                              ELSE IF Present(lookup[s]) THEN "ok" ELSE "missing")

(***************************************************************************)
(* scoreWaves called on its own.                                           *)
(***************************************************************************)
\* Wave heights in tenths of a foot, on both sides of every band boundary,
\* flat water included.
WaveHeights == {0, 1, 10, 19, 20, 29, 30, 49, 50, 60, 79, 80, 120}

WaveProviderTags == {"NOAA-NDBC", "OpenWaterLog"}

\* No reading, the fallback of fetchStaticData, and readings of the two
\* providers (the buoy's with its swell period).
ScoredWaveInputs ==
  { NULL, [timestamp |-> StartClock, waveHeightFeet |-> 0, source |-> "unavailable"],
    [timestamp |-> StartClock, waveHeightFeet |-> 0] }
  \cup { [timestamp |-> t, waveHeightFeet |-> h, source |-> "OpenWaterLog"] :
           t \in {StartClock - 1, StartClock}, h \in WaveHeights }
  \cup { [timestamp |-> t, waveHeightFeet |-> h, swellPeriodSeconds |-> 9, source |-> "NOAA-NDBC"] :
           t \in {StartClock - 1, StartClock}, h \in WaveHeights }

\* const wavesFactor = scoreWaves(waves)
CallScoreWaves ==
  /\ calls = <<>>
  /\ calls' = <<[args |-> readings, at |-> now, result |-> scoreWaves(readings.waves)]>>
  /\ UNCHANGED <<storeVars, damVars, now, readings, gatherVars>>

InitWaves ==
  /\ now = StartClock
  /\ GatherIdle
  /\ calls = <<>>
  /\ readings \in [waves : ScoredWaveInputs]
  /\ DamIdle
  /\ StoresIdle

NextWaves == CallScoreWaves

SpecWaves == InitWaves /\ [][NextWaves]_vars

\* The score (in tenths) and status the claim gives a height.
C22_Band(h) ==
  IF h < 20 THEN [score |-> 1000, status |-> "calm"]
  ELSE IF h < 30 THEN [score |-> 850, status |-> "calm"]
  ELSE IF h < 50 THEN [score |-> 600, status |-> "moderate"]
  ELSE IF h < 80 THEN [score |-> 300, status |-> "rough"]
  ELSE [score |-> 100, status |-> "dangerous"]

\* The reading comes from a provider.
FromWaveProvider(w) == w # NULL /\ Has(w, "source") /\ w.source \in WaveProviderTags

\* C22 (as claimed): a provider's wave reading of height h >= 0 scores by
\* the bands 100 calm (< 2 ft), 85 calm (< 3), 60 moderate (< 5), 30 rough
\* (< 8), 10 dangerous; score 50 with status moderate is returned only for an
\* absent reading or a zero height without a source.
C22_BandsByHeight ==
  calls # <<>> =>
    LET w == calls[1].args.waves
        r == calls[1].result
    IN  /\ FromWaveProvider(w) =>
             (r.score = C22_Band(w.waveHeightFeet).score /\ r.status = C22_Band(w.waveHeightFeet).status)
        /\ (r.score = 500 /\ r.status = "moderate") =>
             (w = NULL \/ (w.waveHeightFeet = 0 /\ ~FromWaveProvider(w)))

(***************************************************************************)
(* The rating.                                                             *)
(***************************************************************************)
\* C23: the rating calculateSwimScore returns is excellent exactly for an
\* overall score of 80 or more, good for 60..79, fair for 40..59, poor for
\* 20..39 and dangerous below 20.
C23_RatingByFixedBoundaries ==
  \A i \in 1..Len(calls) :
    LET overallScore == calls[i].result.overallScore
        rating == calls[i].result.rating
    IN  /\ rating = "excellent" <=> overallScore >= 80
        /\ rating = "good" <=> (60 <= overallScore /\ overallScore < 80)
        /\ rating = "fair" <=> (40 <= overallScore /\ overallScore < 60)
        /\ rating = "poor" <=> (20 <= overallScore /\ overallScore < 40)
        /\ rating = "dangerous" <=> overallScore < 20

\* The same readings scored twice: exactly 80 (excellent) at first, and a
\* score of the good band the second time.
C23_Witness ==
  /\ Len(calls) = 2
  /\ calls[1].result.overallScore = 80
  /\ calls[1].result.rating = "excellent"
  /\ calls[2].result.overallScore \in 60..79
  /\ calls[2].result.rating = "good"

(***************************************************************************)
(* The advice.                                                             *)
(***************************************************************************)
\* The rule group a string of advice belongs to: 1 water quality, 2 tide and
\* current, 3 waves, 4 weather, 5 dam releases, 6 overall.
AdviceGroup(text) ==
  CASE text \in {"Do not swim - dangerous water quality", "Water quality warning in effect",
                 "Recent sewer overflow - use caution"} -> 1
    [] text \in {"Excellent time - slack tide", "Strong currents - experienced swimmers only"} -> 2
    [] text \in {"Dangerous wave conditions", "Rough seas - not recommended",
                 "Calm water conditions"} -> 3
    [] text \in {"Strong winds present"} -> 4
    [] text \in {"Extreme dam releases - very strong currents expected",
                 "High dam releases - strong bay currents",
                 "Moderate dam releases - be aware of currents", "Normal dam operations"} -> 5
    [] text \in {"Excellent conditions for swimming", "Good conditions for swimming",
                 "Fair conditions - experienced swimmers recommended",
                 "Poor conditions - not recommended", "Dangerous conditions - do not swim"} -> 6
    [] OTHER -> 0

\* A list of advice holds known strings, at most one of a group, in the
\* order of the groups.
InGroupOrder(list) ==
  /\ \A i \in 1..Len(list) : AdviceGroup(list[i]) > 0
  /\ \A i, j \in 1..Len(list) : i < j => AdviceGroup(list[i]) < AdviceGroup(list[j])

\* text is a member of list.
Emits(list, text) == \E i \in 1..Len(list) : list[i] = text

\* C24: the advice is a function of the factors and the overall score alone
\* and leaves the scores as the sub-scorers gave them; water-quality status
\* dangerous always gives the warning 'Do not swim - dangerous water
\* quality', phase slack the recommendation 'Excellent time - slack tide',
\* release level extreme the extreme-dam-release warning; the strings come
\* in the order water quality, tide/current, waves, weather, dam releases,
\* overall.
C24_AdviceByFixedRules ==
  \A i \in 1..Len(calls) :
    LET a == calls[i].args
        r == calls[i].result
        f == r.factors
    IN  /\ f = Factors(a.tide, a.current, a.weather, a.waves, a.waterQuality, a.recentSSOs,
                       a.damReleases, calls[i].prefs, calls[i].at)
        /\ r.overallScore = OverallScore(f)
        /\ \A j \in 1..Len(calls) :
             (calls[j].result.factors = f /\ calls[j].result.overallScore = r.overallScore) =>
               /\ calls[j].result.recommendations = r.recommendations
               /\ calls[j].result.warnings = r.warnings
        /\ f.waterQuality.status = "dangerous" =>
             Emits(r.warnings, "Do not swim - dangerous water quality")
        /\ f.tideAndCurrent.phase = "slack" =>
             Emits(r.recommendations, "Excellent time - slack tide")
        /\ (Has(f.damReleases, "releaseLevel") /\ f.damReleases.releaseLevel = "extreme") =>
             Emits(r.warnings, "Extreme dam releases - very strong currents expected")
        /\ InGroupOrder(r.recommendations)
        /\ InGroupOrder(r.warnings)

\* Dangerous water quality at slack tide under extreme releases: three
\* warnings and one recommendation, each list in the order of the groups.
C24_Witness ==
  /\ Len(calls) >= 1
  /\ calls[1].result.factors.waterQuality.status = "dangerous"
  /\ calls[1].result.factors.tideAndCurrent.phase = "slack"
  /\ Has(calls[1].result.factors.damReleases, "releaseLevel")
  /\ calls[1].result.factors.damReleases.releaseLevel = "extreme"
  /\ Len(calls[1].result.warnings) >= 3
  /\ calls[1].result.warnings[1] = "Do not swim - dangerous water quality"
  /\ Emits(calls[1].result.recommendations, "Excellent time - slack tide")

(***************************************************************************)
(* Gather under providers that may never respond.  A request made with a   *)
(* timeout option ends by itself, so its lookup settles whatever the       *)
(* provider does; a request made without one (axios waits without limit)   *)
(* settles only when the provider responds.                                *)
(***************************************************************************)
\* The lookups all of whose requests carry a timeout option: water quality
\* (10 s), wind (5 s), dam releases (15 s per station).  The tide, current,
\* weather, overflow and buoy requests carry none.
TimedSlots == {"waterQuality", "windData", "damReleases"}

\* What a provider that responds makes its lookup settle with: a reading,
\* or null (no overflow events for recentSSOs) when the response holds no
\* data or the request failed; every provider function catches its errors.
Answers(s) ==
  {Fulfilled(v) : v \in ValuesOf(s)} \cup {Fulfilled(IF s = "recentSSOs" THEN <<>> ELSE NULL)}

\* A page without waveData, or with an empty one, gives null.
OwlAnswers == {Fulfilled(NULL)} \cup {Fulfilled(v) : v \in OwlValues}

\* What fetchDamReleases returns when every station's request timed out:
\* each fetchDamFlowHistory catches and returns no samples.
DamTimedOut ==
  LET zero == [n |-> 0, d |-> 1]
  IN  [timestamp |-> StartClock,
       current |-> [totalFlowCFS |-> 0, releaseLevel |-> "low"],
       historical48h |-> [averageFlowCFS |-> zero, peakFlowCFS |-> 0, peakTimestamp |-> StartClock,
                          trendDirection |-> "stable", last24hAverage |-> zero,
                          last48hAverage |-> zero, dataPointsCount |-> 0],
       dams |-> [i \in 1..Len(MONITORED_DAMS) |->
                   [name |-> MONITORED_DAMS[i].name, stationId |-> MONITORED_DAMS[i].stationId,
                    current |-> [flowCFS |-> 0, percentOfTotal |-> zero],
                    historical48h |-> [averageFlowCFS |-> zero, peakFlowCFS |-> 0,
                                       dataPoints |-> 0]]],
       source |-> "CDEC"]

\* What a timed lookup settles with when its request timed out: the
\* provider function catches the error and returns null, fetchDamReleases
\* the aggregate without samples.
TimedOut(s) == IF s = "damReleases" THEN Fulfilled(DamTimedOut) ELSE Fulfilled(NULL)

\* The timeout of a timed lookup's request expires.
TimeoutExpires(s) == Settle(s, TimedOut(s))

\* The timeout of the primary wave provider's request expires:
\* fetchOpenWaterLogWaveData returns null and the buoy is asked.
OwlTimeoutExpires == OwlSettle(Fulfilled(NULL))

NextTimeouts ==
  \/ \E h \in {"fetchStaticData", "GET"} : Start(h, "none")
  \/ \E s \in Slots : \E o \in Answers(s) : Settle(s, o)
  \/ \E s \in TimedSlots : TimeoutExpires(s)
  \/ \E o \in OwlAnswers : OwlSettle(o)
  \/ OwlTimeoutExpires
  \/ \E o \in Answers("waves") : BuoySettle(o)
  \/ FetchStaticDataReturn
  \/ GETReturn

\* A running timeout expires unless its lookup settles before, and a handler
\* whose await has completed goes on.
SettlesByTimeout ==
  /\ \A s \in TimedSlots : WF_vars(TimeoutExpires(s))
  /\ WF_vars(OwlTimeoutExpires)
  /\ WF_vars(FetchStaticDataReturn)
  /\ WF_vars(GETReturn)

SpecTimeouts == Init /\ [][NextTimeouts]_vars /\ SettlesByTimeout

\* C25 (as claimed): every lookup gather issued settles within its own
\* timeout even when its provider never responds, so a gather that has
\* started always eventually returns.
C25_GatherAlwaysReturns == (pc = "waiting") ~> (pc = "done")

(***************************************************************************)
(* discoverWQPStation and its module-level cache.                          *)
(***************************************************************************)
\* 24 * 60 * 60 * 1000 milliseconds, in hours.
CACHE_DURATION == 24

\* Hours the clock can run on after StartClock.
MaxCacheHours == 25

\* How far the clock moves between two calls: an hour short of the cache's
\* duration, or the whole of it.
WaitHours == {23, 24}

\* The ids a station row can carry in its third column; the column can be
\* empty.
StationIds == {"WQP-A", "WQP-B", ""}

\* What a station search can come to: a row taken (by name: a line naming
\* Aquatic Park with more than two columns; by coordinates: the first data
\* line with more than two columns), no such row, or a request that failed.
DiscoveryOutcomes ==
  { [kind |-> "found", stationId |-> id] : id \in StationIds }
  \cup { [kind |-> "notFound"], [kind |-> "failed"] }

\* The cached id is served up to and including its 24th hour
CacheFreshInclusive(t) ==
  cachedWQPStationId \notin {NoStation, ""} /\ (t - cacheTimestamp) <= CACHE_DURATION

\* cachedWQPStationId && (Date.now() - cacheTimestamp) < CACHE_DURATION; the
\* empty string is falsy.
CacheFresh(t) ==
  cachedWQPStationId \notin {NoStation, ""} /\ (t - cacheTimestamp) < CACHE_DURATION

\* The cache as a call found it.
CacheSeen == [stationId |-> cachedWQPStationId, timestamp |-> cacheTimestamp]

\* discoverWQPStation is called and the cache is fresh: the cached id is
\* returned, whether or not other calls are inside their awaits.
DiscoverFromCache ==
  /\ CacheFresh(now)
  /\ discovery' = [at |-> now, seen |-> CacheSeen, requests |-> 0, outcome |-> "none",
                   returned |-> cachedWQPStationId, returnedAt |-> now]
  /\ UNCHANGED <<cachedWQPStationId, cacheTimestamp, wqpPc, now, calls, readings, damVars, gatherVars, cacheVars, dashboardVars>>

\* discoverWQPStation is called and the cache is empty or expired: the
\* search by name is requested.
DiscoverRequest ==
  /\ BagCardinality(wqpPc) < MaxOverlap
  /\ ~CacheFresh(now)
  /\ wqpPc' = wqpPc (+) SetToBag({[stage |-> "name", at |-> now, seen |-> CacheSeen]})
  /\ discovery' = NULL
  /\ UNCHANGED <<cachedWQPStationId, cacheTimestamp, now, calls, readings, damVars, gatherVars, cacheVars, dashboardVars>>

\* What a call that went through the given number of requests returns.
Returned(call, awaited, outcome, stationId) ==
  [at |-> call.at, seen |-> call.seen, requests |-> awaited, outcome |-> outcome,
   returned |-> stationId, returnedAt |-> now]

\* The search by name of a call ends.  A row found is stored with
\* Date.now() and returned; without one the search by coordinates is
\* requested; a failed request is caught and null returned.
DiscoverSettle(call, o) ==
  /\ BagIn(call, wqpPc)
  /\ call.stage = "name"
  /\ CASE o.kind = "found" ->
            /\ cachedWQPStationId' = o.stationId
            /\ cacheTimestamp' = now
            /\ discovery' = Returned(call, 1, "found", o.stationId)
            /\ wqpPc' = wqpPc (-) SetToBag({call})
       [] o.kind = "notFound" ->
            /\ wqpPc' = (wqpPc (-) SetToBag({call})) (+) SetToBag({[call EXCEPT !.stage = "coordinates"]})
            /\ discovery' = NULL
            /\ UNCHANGED <<cachedWQPStationId, cacheTimestamp>>
       [] o.kind = "failed" ->
            /\ discovery' = Returned(call, 1, "failed", NoStation)
            /\ wqpPc' = wqpPc (-) SetToBag({call})
            /\ UNCHANGED <<cachedWQPStationId, cacheTimestamp>>
  /\ UNCHANGED <<now, calls, readings, damVars, gatherVars, cacheVars, dashboardVars>>

\* The search by coordinates of a call ends.
DiscoverCoordinatesSettle(call, o) ==
  /\ BagIn(call, wqpPc)
  /\ call.stage = "coordinates"
  /\ wqpPc' = wqpPc (-) SetToBag({call})
  /\ IF o.kind = "found"
     THEN /\ cachedWQPStationId' = o.stationId
          /\ cacheTimestamp' = now
          /\ discovery' = Returned(call, 2, "found", o.stationId)
     ELSE /\ UNCHANGED <<cachedWQPStationId, cacheTimestamp>>
          /\ discovery' = Returned(call, 2, o.kind, NoStation)
  /\ UNCHANGED <<now, calls, readings, damVars, gatherVars, cacheVars, dashboardVars>>

\* Time passes between calls.
CacheClockTick(d) ==
  /\ wqpPc = EmptyBag
  /\ now + d <= StartClock + MaxCacheHours
  /\ now' = now + d
  /\ discovery' = NULL
  /\ UNCHANGED <<cachedWQPStationId, cacheTimestamp, wqpPc, calls, readings, damVars, gatherVars, cacheVars, dashboardVars>>

\* The clock passes an hour boundary while requests are pending; each is
\* bounded by its 10 s timeout, so a call sees at most one pass.
PendingClockTick ==
  /\ wqpPc # EmptyBag
  /\ \A call \in BagToSet(wqpPc) : call.at = now
  /\ now + 1 <= StartClock + MaxCacheHours
  /\ now' = now + 1
  /\ discovery' = NULL
  /\ UNCHANGED <<cachedWQPStationId, cacheTimestamp, wqpPc, calls, readings, damVars, gatherVars, cacheVars, dashboardVars>>

InitDiscovery ==
  /\ now = StartClock
  /\ GatherIdle
  /\ calls = <<>>
  /\ readings = NULL
  /\ DamIdle
  /\ StoresIdle

NextDiscovery ==
  \/ DiscoverFromCache
  \/ DiscoverRequest
  \/ \E call \in BagToSet(wqpPc) : \E o \in DiscoveryOutcomes : DiscoverSettle(call, o)
  \/ \E call \in BagToSet(wqpPc) : \E o \in DiscoveryOutcomes : DiscoverCoordinatesSettle(call, o)
  \/ \E d \in WaitHours : CacheClockTick(d)
  \/ PendingClockTick

SpecDiscovery == InitDiscovery /\ [][NextDiscovery]_vars

\* C26: discoverWQPStation returns the cached id without a discovery request
\* only when an id is cached and less than 24 hours have passed since it was
\* stored; with an entry 24 hours old or older discovery is performed again;
\* a failed discovery returns no station, never the expired id, and leaves
\* no exception; every successful discovery stores the id with a fresh
\* timestamp.
C26_CacheServedOnlyWhileFresh ==
  discovery # NULL =>
    LET fresh == /\ discovery.seen.stationId \notin {NoStation, ""}
                 /\ discovery.at - discovery.seen.timestamp < 24
    IN  /\ discovery.requests = 0 <=> fresh
        /\ discovery.requests = 0 => discovery.returned = discovery.seen.stationId
        /\ discovery.outcome \in {"notFound", "failed"} => discovery.returned = NoStation
        /\ discovery.outcome = "found" =>
             /\ discovery.requests \in {1, 2}
             /\ discovery.returned # NoStation
             /\ cachedWQPStationId = discovery.returned
             /\ cacheTimestamp = discovery.returnedAt

\* An id stored 24 hours ago is not served: discovery is requested again,
\* finds no row by name, fails by coordinates an hour later, and the call
\* returns no station.
C26_Witness ==
  /\ discovery # NULL
  /\ discovery.seen.stationId = "WQP-A"
  /\ discovery.at - discovery.seen.timestamp = 24
  /\ discovery.requests = 2
  /\ discovery.outcome = "failed"
  /\ discovery.returned = NoStation
  /\ discovery.returnedAt = discovery.at + 1
  /\ cachedWQPStationId = "WQP-A"

(***************************************************************************)
(* Overflow events at a distance from the site.                            *)
(***************************************************************************)
\* Overflow events 10 hours and 100 hours old, resolved or not, at 1, 2, 3
\* and 5 miles from the park (distanceFromParkMiles in miles).
DistantOverflowEvents ==
  { [id |-> "sso", reportedAt |-> StartClock - age, resolved |-> r,
     distanceFromParkMiles |-> d, source |-> "SFPUC"] :
      age \in {10, 100}, r \in BOOLEAN, d \in {1, 2, 3, 5} }

DistantOverflowLists ==
  { <<>> } \cup { <<e>> : e \in DistantOverflowEvents }
  \cup { <<e1, e2>> : e1 \in DistantOverflowEvents, e2 \in DistantOverflowEvents }

InitProximity ==
  /\ now = StartClock
  /\ GatherIdle
  /\ calls = <<>>
  /\ readings \in [waterQuality : ScoredWaterQualityInputs, recentSSOs : DistantOverflowLists]
  /\ DamIdle
  /\ StoresIdle

SpecProximity == InitProximity /\ [][NextWaterQuality]_vars

\* The events of a list that lie within the proximity radius.
WithinProximity(recentSSOs) ==
  SelectSeq(recentSSOs, LAMBDA sso : sso.distanceFromParkMiles <= SAFETY_THRESHOLDS.sso.proximityMiles)

\* C27 (as claimed): an overflow event farther than 2 miles from the site,
\* resolved or not, leaves the water-quality score and status unchanged:
\* they are what the events within 2 miles alone give.
C27_OnlyNearbyOverflowsCount ==
  calls # <<>> =>
    LET a == calls[1].args
        near == scoreWaterQuality(a.waterQuality, WithinProximity(a.recentSSOs), calls[1].at)
    IN  /\ calls[1].result.score = near.score
        /\ calls[1].result.status = near.status

(***************************************************************************)
(* The dashboard's conditions cache (useConditionsCache.ts).  The browser  *)
(* clock counts minutes.                                                   *)
(***************************************************************************)
\* CACHE_DURATION_MS = 5 * 60 * 1000, in minutes.
CACHE_DURATION_MS == 5

MaxBrowserMinutes == 9

WaitMinutes == {1, 4}

\* Conditions documents a page can save.
ConditionsDocuments == { [tide |-> "ebb", score |-> 70], [tide |-> "slack", score |-> 90] }

\* getConditionsFromCache at time t with the entry stored: what it returns
\* and what it leaves in localStorage.
getConditionsFromCache(stored, t) ==
  IF stored = NULL THEN [returned |-> NULL, storage |-> NULL]
  ELSE IF t >= stored.expiresAt THEN [returned |-> NULL, storage |-> NULL]
  ELSE [returned |-> stored.data, storage |-> stored]

\* saveConditionsToCache at time t: the entry written to localStorage.
saveConditionsToCache(data, t) ==
  [data |-> data, cachedAt |-> t, expiresAt |-> t + CACHE_DURATION_MS]

\* A page load: the hook's state starts at its defaults and the mount effect
\* reads the cache.
MountCache ==
  LET r == getConditionsFromCache(storage, browserNow)
  IN  /\ served' = [at |-> browserNow, stored |-> storage, returned |-> r.returned,
                    left |-> r.storage]
      /\ storage' = r.storage
      /\ cachedData' = r.returned
      /\ isCacheValid' = (r.returned # NULL)
      /\ UNCHANGED <<browserNow, dashboardVars, wqpVars, now, calls, readings, damVars, gatherVars>>

\* The hook's setCachedData.
SetCachedData(data) ==
  /\ storage' = saveConditionsToCache(data, browserNow)
  /\ cachedData' = data
  /\ isCacheValid' = TRUE
  /\ UNCHANGED <<browserNow, served, dashboardVars, wqpVars, now, calls, readings, damVars, gatherVars>>

\* The hook's clearCache.
ClearCache ==
  /\ storage' = NULL
  /\ cachedData' = NULL
  /\ isCacheValid' = FALSE
  /\ UNCHANGED <<browserNow, served, dashboardVars, wqpVars, now, calls, readings, damVars, gatherVars>>

\* Time passes in the browser.
BrowserClockTick(d) ==
  /\ browserNow + d <= MaxBrowserMinutes
  /\ browserNow' = browserNow + d
  /\ UNCHANGED <<storage, cachedData, isCacheValid, served, dashboardVars, wqpVars, now, calls,
                 readings, damVars, gatherVars>>

InitConditionsCache ==
  /\ now = StartClock
  /\ GatherIdle
  /\ calls = <<>>
  /\ readings = NULL
  /\ DamIdle
  /\ StoresIdle

NextConditionsCache ==
  \/ MountCache
  \/ \E data \in ConditionsDocuments : SetCachedData(data)
  \/ ClearCache
  \/ \E d \in WaitMinutes : BrowserClockTick(d)

SpecConditionsCache == InitConditionsCache /\ [][NextConditionsCache]_vars

\* What getConditionsFromCache and saveConditionsToCache do on their own:
\* an entry is returned iff it is read before its expiresAt, an expired
\* entry is removed, and a saved entry expires 5 minutes after its save.
CacheReadsAndWrites ==
  /\ served # NULL =>
       LET unexpired == served.stored # NULL /\ served.at < served.stored.expiresAt
       IN  /\ unexpired => served.returned = served.stored.data /\ served.left = served.stored
           /\ ~unexpired => served.returned = NULL /\ served.left = NULL
  /\ storage # NULL => storage.expiresAt = storage.cachedAt + 5 /\ storage.cachedAt <= browserNow

\* C28 (as claimed): the conditions cache serves an entry only while fewer
\* than 5 minutes have passed since its save, removes an expired entry on
\* read, restarts the window on every save, and the hook's isCacheValid flag
\* is true only while an unexpired entry exists.
C28_ValidOnlyWhileUnexpired ==
  /\ CacheReadsAndWrites
  /\ isCacheValid => storage # NULL /\ browserNow < storage.expiresAt

(***************************************************************************)
(* The dashboard component (CurrentConditions, dynamic mode): it fetches   *)
(* /api/conditions with the selected preference; responses arrive in any   *)
(* order.                                                                  *)
(***************************************************************************)
\* TidePhaseType = 'slack' | 'flood' | 'ebb'
DashboardPreferences == {"slack", "flood", "ebb"}

MaxRequests == 4

\* The auto-refresh interval, 5 * 60 * 1000 ms, in minutes.
RefreshMinutes == 5

\* The providers' answers behind the route while the page is open: every
\* lookup of the route answers, the tide is ebbing.
ProviderAnswer(s) ==
  IF s = "tide" THEN CHOOSE v \in TideValues : v.currentPhase = "ebb"
  ELSE IF s = "windData" THEN CHOOSE v \in WindValues : "windGustMph" \in DOMAIN v
  ELSE CHOOSE v \in ValuesOf(s) : TRUE

AnsweredLookup ==
  [s \in Slots |-> IF s \in SlotsOf("GET") THEN Fulfilled(ProviderAnswer(s)) ELSE NotIssued]

TidelessLookup == [AnsweredLookup EXCEPT !["tide"] = Rejected]

\* What the route answers to a request with preference pref when its
\* lookups settled as l (the result of GETReturn).
RouteAnswer(l, pref, timestamp) ==
  LET a == ScorerArgs(l, timestamp)
  IN  IF ~HasRequiredData(ExtractTide(l["tide"]), Extract(l["weather"]),
                          Extract(l["waves"]), Extract(l["waterQuality"]))
      THEN ServiceUnavailable(l)
      ELSE IF buildTidePreferences(pref) # NULL THEN InternalServerError
      ELSE Conditions(l, a, calculateSwimScore(a.tide, a.current, a.weather, a.waves,
                                               a.waterQuality, a.recentSSOs, NULL, NULL,
                                               timestamp), timestamp)

\* The conditions document for a request with preference pref: the readings
\* scored with that preference, as fetchStaticData builds it.
ConditionsFor(l, pref, timestamp) ==
  LET a == ScorerArgs(l, timestamp)
  IN  Conditions(l, a, calculateSwimScore(a.tide, a.current, a.weather, a.waves,
                                          a.waterQuality, a.recentSSOs, a.damReleases,
                                          buildTidePreferences(pref), timestamp), timestamp)

\* fetch rejects (no connection).
NetworkFailure == [kind |-> "rejected"]

\* A response with status 200 whose body is not JSON (here: empty), so that
\* response.json() rejects.
UnparsableBody == [kind |-> "unparsable"]

\* The message of the SyntaxError response.json() rejects with on an empty
\* body.
JSON_PARSE_MESSAGE == "Unexpected end of JSON input"

\* What a call of fetchConditions with preference pref can receive from
\* fetch: a conditions document for the preference, the route's error
\* responses, a 200 response without a JSON body, or a rejection.
AnswersTo ==
  [pref \in DashboardPreferences |->
     {ConditionsFor(AnsweredLookup, pref, StartClock),
      RouteAnswer(AnsweredLookup, pref, StartClock), RouteAnswer(TidelessLookup, pref, StartClock),
      UnparsableBody, NetworkFailure}]

\* response.ok
ResponseOk(answer) == answer.kind \in {"conditions", "unparsable"}

\* data && data.tide && data.score
IsCompleteData(data) ==
  data.kind = "conditions" /\ data.tide # NULL /\ data.score # NULL

\* A call of fetchConditions: its arguments; where it is: awaiting fetch
\* ("pending"), awaiting response.json() ("parsing", with the response it
\* holds), returned after its data were displayed and cached ("applied") or
\* through the catch ("failed"); and its place in the order in which the calls
\* returned (0 until then).
Request(tidePreference, isBackgroundFetch) ==
  [tidePreference |-> tidePreference, isBackgroundFetch |-> isBackgroundFetch,
   status |-> "pending", response |-> NULL, finished |-> 0]

FinishedCalls(reqs) == {j \in 1..Len(reqs) : reqs[j].status \in {"applied", "failed"}}

NumFinished(reqs) == Cardinality(FinishedCalls(reqs))

\* useTidePreference's load effect: the stored value if it is a valid phase,
\* else the default.
LoadedPreference ==
  IF tidePreferenceStorage \in DashboardPreferences THEN tidePreferenceStorage
  ELSE DEFAULT_PREFERENCE

\* A page load.  The hooks' mount effects read the stored preference and
\* the cache; with a valid cache the component shows it and fetches in the
\* background, otherwise it fetches in the foreground.  Requests of the page
\* before are gone with it.
MountDashboard ==
  LET r == getConditionsFromCache(storage, browserNow)
  IN  /\ served' = [at |-> browserNow, stored |-> storage, returned |-> r.returned,
                    left |-> r.storage]
      /\ storage' = r.storage
      /\ cachedData' = r.returned
      /\ isCacheValid' = (r.returned # NULL)
      /\ conditions' = r.returned
      /\ loading' = (r.returned = NULL)
      /\ error' = NoError
      /\ preference' = LoadedPreference
      /\ reloading' = FALSE
      /\ requests' = << Request(LoadedPreference, r.returned # NULL) >>
      /\ UNCHANGED <<browserNow, tidePreferenceStorage, wqpVars, now, calls, readings, damVars, gatherVars>>

\* handleTidePreferenceChange (the selector is rendered only while the
\* conditions are): setPreference stores and sets the preference,
\* setLoading(true), fetchConditions with the new preference; then the
\* effect on [isLoaded, preference] fetches again.
HandleTidePreferenceChange(newPreference) ==
  /\ requests # <<>>
  /\ ~reloading
  /\ ~loading /\ error = NoError /\ conditions # NULL
  /\ newPreference # preference
  /\ Len(requests) + 2 <= MaxRequests
  /\ tidePreferenceStorage' = newPreference
  /\ preference' = newPreference
  /\ loading' = TRUE
  /\ requests' = requests \o << Request(newPreference, FALSE),
                                Request(newPreference, isCacheValid /\ cachedData # NULL) >>
  /\ UNCHANGED <<reloading, conditions, error, cacheVars, wqpVars, now, calls, readings, damVars, gatherVars>>

\* Five minutes pass and the auto-refresh interval fires:
\* fetchConditions(preference, true).
AutoRefresh ==
  /\ requests # <<>>
  /\ ~reloading
  /\ Len(requests) < MaxRequests
  /\ browserNow + RefreshMinutes <= MaxBrowserMinutes
  /\ browserNow' = browserNow + RefreshMinutes
  /\ requests' = Append(requests, Request(preference, TRUE))
  /\ UNCHANGED <<tidePreferenceStorage, reloading, preference, conditions, loading, error, storage,
                 cachedData, isCacheValid, served, wqpVars, now, calls, readings, damVars, gatherVars>>

\* The Retry button of the error page: fetchConditions(preference).
Retry ==
  /\ requests # <<>>
  /\ ~reloading
  /\ ~loading /\ error # NoError
  /\ Len(requests) < MaxRequests
  /\ loading' = TRUE
  /\ requests' = Append(requests, Request(preference, FALSE))
  /\ UNCHANGED <<tidePreferenceStorage, reloading, preference, conditions, error, cacheVars, wqpVars,
                 now, calls, readings, damVars, gatherVars>>

\* handleClearCache (the button is rendered with the conditions) confirmed:
\* localStorage.clear() removes the cache entry and the stored preference,
\* window.location.reload() starts the reload.  The hooks' state is not
\* touched; the page load that follows is MountDashboard.
HandleClearCache ==
  /\ requests # <<>>
  /\ ~reloading
  /\ ~loading /\ error = NoError /\ conditions # NULL
  /\ storage' = NULL
  /\ tidePreferenceStorage' = NoStoredPreference
  /\ reloading' = TRUE
  /\ UNCHANGED <<browserNow, cachedData, isCacheValid, served, preference, requests, conditions,
                 loading, error, wqpVars, now, calls, readings, damVars, gatherVars>>

\* The catch and finally blocks of call i: setError(message), and
\* setLoading(false) unless the call is a background fetch.
FailWith(i, message) ==
  /\ error' = message
  /\ loading' = IF requests[i].isBackgroundFetch THEN loading ELSE FALSE
  /\ requests' = [requests EXCEPT ![i].status = "failed", ![i].response = NULL,
                                  ![i].finished = NumFinished(requests) + 1]
  /\ UNCHANGED <<storage, cachedData, isCacheValid, conditions>>

\* await fetch(url) of call i settles.  A rejection and a response that is
\* not ok end the call through the catch; with an ok response the call goes
\* on to await response.json().
FetchSettle(i, answer) ==
  /\ i \in 1..Len(requests)
  /\ requests[i].status = "pending"
  /\ answer \in AnswersTo[requests[i].tidePreference]
  /\ IF answer.kind = "rejected" THEN FailWith(i, "Failed to fetch")
     ELSE IF ~ResponseOk(answer) THEN FailWith(i, "Failed to fetch conditions")
     ELSE /\ requests' = [requests EXCEPT ![i].status = "parsing", ![i].response = answer]
          /\ UNCHANGED <<storage, cachedData, isCacheValid, conditions, error, loading>>
  /\ UNCHANGED <<browserNow, served, tidePreferenceStorage, reloading, preference, wqpVars, now,
                 calls, readings, damVars, gatherVars>>

\* await response.json() of call i settles and fetchConditions runs to its
\* end.  A rejection ends the call through the catch.  Complete data are
\* cached and displayed; the new cachedData makes the effect on
\* [isCacheValid, cachedData] run, which ends the loading state for
\* background fetches too.  The route never answers 200 without tide and
\* score, so the branch for incomplete data is not taken.
JsonSettle(i) ==
  /\ i \in 1..Len(requests)
  /\ requests[i].status = "parsing"
  /\ LET data == requests[i].response
     IN  IF data.kind = "unparsable" THEN FailWith(i, JSON_PARSE_MESSAGE)
         ELSE /\ IsCompleteData(data)
              /\ storage' = saveConditionsToCache(data, browserNow)
              /\ cachedData' = data
              /\ isCacheValid' = TRUE
              /\ conditions' = data
              /\ error' = NoError
              /\ loading' = FALSE
              /\ requests' = [requests EXCEPT ![i].status = "applied", ![i].response = NULL,
                                              ![i].finished = NumFinished(requests) + 1]
  /\ UNCHANGED <<browserNow, served, tidePreferenceStorage, reloading, preference, wqpVars, now,
                 calls, readings, damVars, gatherVars>>

InitDashboard ==
  /\ now = StartClock
  /\ GatherIdle
  /\ calls = <<>>
  /\ readings = NULL
  /\ DamIdle
  /\ StoresIdle

NextDashboard ==
  \/ MountDashboard
  \/ \E p \in DashboardPreferences : HandleTidePreferenceChange(p)
  \/ AutoRefresh
  \/ Retry
  \/ HandleClearCache
  \/ \E i \in 1..MaxRequests : \E answer \in UNION {AnswersTo[p] : p \in DashboardPreferences} : FetchSettle(i, answer)
  \/ \E i \in 1..MaxRequests : JsonSettle(i)

SpecDashboard == InitDashboard /\ [][NextDashboard]_vars

\* The score a request with preference pref asks for: the page's readings
\* scored with that preference.
IntendedScore ==
  [pref \in DashboardPreferences |-> ConditionsFor(AnsweredLookup, pref, StartClock).score]

\* Every call of fetchConditions of the page has returned, and one of them
\* was issued for a preference other than the one now selected.
SettledAfterChange ==
  /\ requests # <<>>
  /\ FinishedCalls(requests) = 1..Len(requests)
  /\ \E i \in 1..Len(requests) : requests[i].tidePreference # preference

\* Request i was issued for another preference than the one now selected,
\* its call returned after every other and its data were displayed and
\* cached.
StaleAppliedLast(i) ==
  /\ requests[i].tidePreference # preference
  /\ requests[i].status = "applied"
  /\ requests[i].finished = Len(requests)
  /\ conditions.score # IntendedScore[preference]

\* C29 (as claimed): once the preference was changed and every conditions
\* fetch in flight has completed, the score displayed and cached is the one
\* requested for the preference selected last: no response to a request
\* issued for an earlier preference is the one displayed and cached last.
C29_LatestPreferenceWins ==
  SettledAfterChange => ~ \E i \in 1..Len(requests) : StaleAppliedLast(i)

\* C30 (as claimed): a factor scored from absent data gets no positive
\* recommendation: 'Calm water conditions' is emitted only for a provider's
\* wave reading below 2 ft, 'Normal dam operations' only for an available
\* aggregate classified low, 'Excellent time - slack tide' only for a tide
\* reading in slack phase.
C30_NoPraiseForAbsentData ==
  \A i \in 1..Len(calls) :
    LET a == calls[i].args
        recommendations == calls[i].result.recommendations
    IN  /\ Emits(recommendations, "Calm water conditions") =>
             a.waves # NULL /\ FromWaveProvider(a.waves) /\ a.waves.waveHeightFeet < 20
        /\ Emits(recommendations, "Normal dam operations") =>
             a.damReleases # NULL /\ a.damReleases.releaseLevel = "low"
        /\ Emits(recommendations, "Excellent time - slack tide") =>
             a.tide # NULL /\ a.tide.currentPhase = "slack"

====
